---------------------------- MODULE Spec2Model ----------------------------
(***************************************************************************)
(* The iso3166 linter of the GS1 Syntax Dictionary (src/src/lint_iso3166.c)*)
(* as a state machine: a caller issues calls of gs1_lint_iso3166, each call *)
(* runs the binary search of GS1_LINTER_ISO3166_LOOKUP one loop iteration   *)
(* per step over the static table iso3166, then returns GS1_LINTER_OK or    *)
(* writes the error span and returns GS1_LINTER_NOT_ISO3166.                *)
(*                                                                         *)
(* A C string is the sequence of its bytes before the terminating NUL, each *)
(* byte its unsigned char value 1..255; reading at the terminator yields    *)
(* NUL.  The two output objects *err_pos and *err_len are two distinct      *)
(* size_t objects of the caller.                                            *)
(***************************************************************************)
EXTENDS Integers, Sequences, FiniteSets, TLC

VARIABLES
    pc,            \* position of the call: "idle", "loop", "after", "done", "abort"
    data,          \* the argument data: NULL or the address of the caller's string
    data_str,      \* the bytes of the string data points to
    err_pos,       \* the argument err_pos: NULL or the address of a size_t
    err_len,       \* the argument err_len: NULL or the address of a size_t
    star_err_pos,  \* the caller's size_t object that err_pos may point to
    star_err_len,  \* the caller's size_t object that err_len may point to
    valid,         \* local int valid
    s,             \* local size_t s of the lookup
    e,             \* local size_t e of the lookup
    m,             \* const size_t m of the latest loop iteration
    cmp,           \* const int cmp of the latest loop iteration
    ret,           \* the value returned by the call, "none" while it runs
    writes,        \* the addresses outside its locals the call has written to
    probes,        \* the number of strcmp calls the call has made
    fn,            \* the function the call runs, "none" between calls
    lookup,        \* the lookup the function was built with, "none" between calls
    ref_set,       \* the table of a further instantiation of the pattern
    remembered,    \* one earlier call and its result, as the caller noted it
    other,         \* the saved frame of the thread that is not running
    ndebug         \* whether the running call is of a build with NDEBUG defined

vars == <<pc, data, data_str, err_pos, err_len, star_err_pos, star_err_len,
          valid, s, e, m, cmp, ret, writes, probes, fn, lookup, ref_set,
          remembered, other, ndebug>>

\* Longest string over Alphabet that the caller passes.
MaxLen == 4

NUL == 0
NULL == "NULL"
GS1_LINTER_OK == "GS1_LINTER_OK"
GS1_LINTER_NOT_ISO3166 == "GS1_LINTER_NOT_ISO3166"
GS1_LINTER_NOT_ISO4217 == "GS1_LINTER_NOT_ISO4217"

\* The string literal made of the three decimal digit characters a b c.
Lit(a, b, c) == <<48 + a, 48 + b, 48 + c>>

\* The initializer of static const char iso3166[][4]: the set of ISO 3166 num-3
\* country codes, in the order of the source.
iso3166_initializer ==
    << Lit(0,0,4), Lit(0,0,8), Lit(0,1,0), Lit(0,1,2), Lit(0,1,6), Lit(0,2,0), Lit(0,2,4), Lit(0,2,8), Lit(0,3,1), Lit(0,3,2), Lit(0,3,6), Lit(0,4,0), Lit(0,4,4), Lit(0,4,8),
       Lit(0,5,0), Lit(0,5,1), Lit(0,5,2), Lit(0,5,6), Lit(0,6,0), Lit(0,6,4), Lit(0,6,8), Lit(0,7,0), Lit(0,7,2), Lit(0,7,4), Lit(0,7,6), Lit(0,8,4), Lit(0,8,6), Lit(0,9,0), Lit(0,9,2), Lit(0,9,6),
       Lit(1,0,0), Lit(1,0,4), Lit(1,0,8), Lit(1,1,2), Lit(1,1,6), Lit(1,2,0), Lit(1,2,4), Lit(1,3,2), Lit(1,3,6), Lit(1,4,0), Lit(1,4,4), Lit(1,4,8),
       Lit(1,5,2), Lit(1,5,6), Lit(1,5,8), Lit(1,6,2), Lit(1,6,6), Lit(1,7,0), Lit(1,7,4), Lit(1,7,5), Lit(1,7,8), Lit(1,8,0), Lit(1,8,4), Lit(1,8,8), Lit(1,9,1), Lit(1,9,2), Lit(1,9,6),
       Lit(2,0,3), Lit(2,0,4), Lit(2,0,8), Lit(2,1,2), Lit(2,1,4), Lit(2,1,8), Lit(2,2,2), Lit(2,2,6), Lit(2,3,1), Lit(2,3,2), Lit(2,3,3), Lit(2,3,4), Lit(2,3,8), Lit(2,3,9), Lit(2,4,2), Lit(2,4,6), Lit(2,4,8),
       Lit(2,5,0), Lit(2,5,4), Lit(2,5,8), Lit(2,6,0), Lit(2,6,2), Lit(2,6,6), Lit(2,6,8), Lit(2,7,0), Lit(2,7,5), Lit(2,7,6), Lit(2,8,8), Lit(2,9,2), Lit(2,9,6),
       Lit(3,0,0), Lit(3,0,4), Lit(3,0,8), Lit(3,1,2), Lit(3,1,6), Lit(3,2,0), Lit(3,2,4), Lit(3,2,8), Lit(3,3,2), Lit(3,3,4), Lit(3,3,6), Lit(3,4,0), Lit(3,4,4), Lit(3,4,8),
       Lit(3,5,2), Lit(3,5,6), Lit(3,6,0), Lit(3,6,4), Lit(3,6,8), Lit(3,7,2), Lit(3,7,6), Lit(3,8,0), Lit(3,8,4), Lit(3,8,8), Lit(3,9,2), Lit(3,9,8),
       Lit(4,0,0), Lit(4,0,4), Lit(4,0,8), Lit(4,1,0), Lit(4,1,4), Lit(4,1,7), Lit(4,1,8), Lit(4,2,2), Lit(4,2,6), Lit(4,2,8), Lit(4,3,0), Lit(4,3,4), Lit(4,3,8), Lit(4,4,0), Lit(4,4,2), Lit(4,4,6),
       Lit(4,5,0), Lit(4,5,4), Lit(4,5,8), Lit(4,6,2), Lit(4,6,6), Lit(4,7,0), Lit(4,7,4), Lit(4,7,8), Lit(4,8,0), Lit(4,8,4), Lit(4,9,2), Lit(4,9,6), Lit(4,9,8), Lit(4,9,9),
       Lit(5,0,0), Lit(5,0,4), Lit(5,0,8), Lit(5,1,2), Lit(5,1,6), Lit(5,2,0), Lit(5,2,4), Lit(5,2,8), Lit(5,3,1), Lit(5,3,3), Lit(5,3,4), Lit(5,3,5), Lit(5,4,0), Lit(5,4,8),
       Lit(5,5,4), Lit(5,5,8), Lit(5,6,2), Lit(5,6,6), Lit(5,7,0), Lit(5,7,4), Lit(5,7,8), Lit(5,8,0), Lit(5,8,1), Lit(5,8,3), Lit(5,8,4), Lit(5,8,5), Lit(5,8,6), Lit(5,9,1), Lit(5,9,8),
       Lit(6,0,0), Lit(6,0,4), Lit(6,0,8), Lit(6,1,2), Lit(6,1,6), Lit(6,2,0), Lit(6,2,4), Lit(6,2,6), Lit(6,3,0), Lit(6,3,4), Lit(6,3,8), Lit(6,4,2), Lit(6,4,3), Lit(6,4,6),
       Lit(6,5,2), Lit(6,5,4), Lit(6,5,9), Lit(6,6,0), Lit(6,6,2), Lit(6,6,3), Lit(6,6,6), Lit(6,7,0), Lit(6,7,4), Lit(6,7,8), Lit(6,8,2), Lit(6,8,6), Lit(6,8,8), Lit(6,9,0), Lit(6,9,4),
       Lit(7,0,2), Lit(7,0,3), Lit(7,0,4), Lit(7,0,5), Lit(7,0,6), Lit(7,1,0), Lit(7,1,6), Lit(7,2,4), Lit(7,2,8), Lit(7,2,9), Lit(7,3,2), Lit(7,4,0), Lit(7,4,4), Lit(7,4,8),
       Lit(7,5,2), Lit(7,5,6), Lit(7,6,0), Lit(7,6,2), Lit(7,6,4), Lit(7,6,8), Lit(7,7,2), Lit(7,7,6), Lit(7,8,0), Lit(7,8,4), Lit(7,8,8), Lit(7,9,2), Lit(7,9,5), Lit(7,9,6), Lit(7,9,8),
       Lit(8,0,0), Lit(8,0,4), Lit(8,0,7), Lit(8,1,8), Lit(8,2,6), Lit(8,3,1), Lit(8,3,2), Lit(8,3,3), Lit(8,3,4), Lit(8,4,0),
       Lit(8,5,0), Lit(8,5,4), Lit(8,5,8), Lit(8,6,0), Lit(8,6,2), Lit(8,7,6), Lit(8,8,2), Lit(8,8,7), Lit(8,9,4) >>

\* Mutant of iso3166: a new code added at the end of the list instead of at
\* its place in the order.
iso3166_appended == Append(iso3166_initializer, Lit(0,0,2))

\* static const char iso3166[][4]
iso3166 == iso3166_initializer

\* The initializer of static const char iso4217[][4] of gs1_lint_iso4217: the
\* set of ISO 4217 three-digit currency codes, in the order of the source.
iso4217_initializer ==
    << Lit(0,0,8), Lit(0,1,2), Lit(0,3,2), Lit(0,3,6), Lit(0,4,4), Lit(0,4,8),
       Lit(0,5,0), Lit(0,5,1), Lit(0,5,2), Lit(0,6,0), Lit(0,6,4), Lit(0,6,8), Lit(0,7,2), Lit(0,8,4), Lit(0,9,0), Lit(0,9,6),
       Lit(1,0,4), Lit(1,0,8), Lit(1,1,6), Lit(1,2,4), Lit(1,3,2), Lit(1,3,6), Lit(1,4,4),
       Lit(1,5,2), Lit(1,5,6), Lit(1,7,0), Lit(1,7,4), Lit(1,8,8), Lit(1,9,1), Lit(1,9,2),
       Lit(2,0,3), Lit(2,0,8), Lit(2,1,4), Lit(2,2,2), Lit(2,3,0), Lit(2,3,2), Lit(2,3,8), Lit(2,4,2), Lit(2,6,2), Lit(2,7,0), Lit(2,9,2),
       Lit(3,2,0), Lit(3,2,4), Lit(3,2,8), Lit(3,3,2), Lit(3,4,0), Lit(3,4,4), Lit(3,4,8),
       Lit(3,5,2), Lit(3,5,6), Lit(3,6,0), Lit(3,6,4), Lit(3,6,8), Lit(3,7,6), Lit(3,8,8), Lit(3,9,2), Lit(3,9,8),
       Lit(4,0,0), Lit(4,0,4), Lit(4,0,8), Lit(4,1,0), Lit(4,1,4), Lit(4,1,7), Lit(4,1,8),
       Lit(4,2,2), Lit(4,2,6), Lit(4,3,0), Lit(4,3,4), Lit(4,4,6),
       Lit(4,5,4), Lit(4,5,8), Lit(4,6,2), Lit(4,8,0), Lit(4,8,4), Lit(4,9,6), Lit(4,9,8),
       Lit(5,0,4), Lit(5,1,2), Lit(5,1,6), Lit(5,2,4), Lit(5,3,2), Lit(5,3,3), Lit(5,4,8),
       Lit(5,5,4), Lit(5,5,8), Lit(5,6,6), Lit(5,7,8), Lit(5,8,6), Lit(5,9,0), Lit(5,9,8),
       Lit(6,0,0), Lit(6,0,4), Lit(6,0,8), Lit(6,3,4), Lit(6,4,3), Lit(6,4,6), Lit(6,5,4), Lit(6,8,2), Lit(6,9,0), Lit(6,9,4),
       Lit(7,0,2), Lit(7,0,4), Lit(7,0,6), Lit(7,1,0), Lit(7,2,8), Lit(7,4,8),
       Lit(7,5,2), Lit(7,5,6), Lit(7,6,0), Lit(7,6,4), Lit(7,7,6), Lit(7,8,0), Lit(7,8,4), Lit(7,8,8),
       Lit(8,0,0), Lit(8,0,7), Lit(8,1,8), Lit(8,2,6), Lit(8,3,4), Lit(8,4,0), Lit(8,5,8), Lit(8,6,0), Lit(8,8,2), Lit(8,8,6),
       Lit(9,0,1), Lit(9,2,5), Lit(9,2,7), Lit(9,2,8), Lit(9,2,9), Lit(9,3,0), Lit(9,3,1), Lit(9,3,2), Lit(9,3,3), Lit(9,3,4), Lit(9,3,6), Lit(9,3,8),
       Lit(9,4,0), Lit(9,4,1), Lit(9,4,3), Lit(9,4,4), Lit(9,4,6), Lit(9,4,7), Lit(9,4,8), Lit(9,4,9),
       Lit(9,5,0), Lit(9,5,1), Lit(9,5,2), Lit(9,5,3), Lit(9,5,5), Lit(9,5,6), Lit(9,5,7), Lit(9,5,8), Lit(9,5,9),
       Lit(9,6,0), Lit(9,6,1), Lit(9,6,2), Lit(9,6,3), Lit(9,6,4), Lit(9,6,5), Lit(9,6,7), Lit(9,6,8), Lit(9,6,9),
       Lit(9,7,0), Lit(9,7,1), Lit(9,7,2), Lit(9,7,3), Lit(9,7,5), Lit(9,7,6), Lit(9,7,7), Lit(9,7,8), Lit(9,7,9),
       Lit(9,8,0), Lit(9,8,1), Lit(9,8,4), Lit(9,8,5), Lit(9,8,6), Lit(9,9,0), Lit(9,9,4), Lit(9,9,7), Lit(9,9,9) >>

\* static const char iso4217[][4]
iso4217 == iso4217_initializer

\* Mutant of iso3166_count: the element count taken one short.
iso3166_count_short == Len(iso3166) - 1

\* Mutant of iso3166_count: sizeof(iso3166), the size in bytes, without the
\* division by sizeof(iso3166[0]).
iso3166_count_bytes == Len(iso3166) * 4

\* sizeof(iso3166) / sizeof(iso3166[0])
iso3166_count == Len(iso3166)

\* The byte at 1-based position i of a C string; the terminator past its end.
CharAt(str, i) == IF i <= Len(str) THEN str[i] ELSE NUL

\* strcmp(a, b): negative, zero or positive as a is less than, equal to or
\* greater than b, comparing bytes as unsigned char up to the first
\* difference or the terminator.  Only the sign is specified by C.
RECURSIVE strcmp_from(_, _, _)
strcmp_from(a, b, i) ==
    LET ca == CharAt(a, i)
        cb == CharAt(b, i)
    IN  IF ca # cb THEN ca - cb
        ELSE IF ca = NUL THEN 0
        ELSE strcmp_from(a, b, i + 1)

\* strncmp(a, b, n): as strcmp, over at most the first n bytes.
RECURSIVE strncmp_from(_, _, _, _)
strncmp_from(a, b, i, n) ==
    LET ca == CharAt(a, i)
        cb == CharAt(b, i)
    IN  IF i > n THEN 0
        ELSE IF ca # cb THEN ca - cb
        ELSE IF ca = NUL THEN 0
        ELSE strncmp_from(a, b, i + 1, n)

\* Mutant of strcmp: strncmp(a, b, strlen(b)), a match on the input as a prefix.
strcmp_prefix(a, b) == strncmp_from(a, b, 1, Len(b))

\* Mutant of strcmp: strncmp(a, b, 3), a match on the first three bytes only.
strcmp_width(a, b) == strncmp_from(a, b, 1, 3)

\* Mutant of strcmp: the two arguments exchanged, strcmp(cc, iso3166[m]).
strcmp_swapped(a, b) == strcmp_from(b, a, 1)

strcmp(a, b) == strcmp_from(a, b, 1)

\* strlen(str): the number of bytes before the terminator.
RECURSIVE strlen_from(_, _)
strlen_from(str, i) ==
    IF CharAt(str, i) = NUL THEN i - 1 ELSE strlen_from(str, i + 1)

strlen(str) == strlen_from(str, 1)

----------------------------------------------------------------------------
\* test_lint_iso3166: the inputs of its UNIT_TEST_PASS lines, and the inputs of
\* its UNIT_TEST_FAIL lines, each of which expects GS1_LINTER_NOT_ISO3166 with
\* the whole input marked.
UNIT_TEST_PASS ==
    { Lit(0,0,4), Lit(0,0,8), Lit(0,1,0), Lit(0,1,2), Lit(0,1,6), Lit(0,2,0), Lit(0,2,4), Lit(0,2,8),
       Lit(0,3,1), Lit(0,3,2), Lit(0,3,6), Lit(0,4,0), Lit(0,4,4), Lit(0,4,8), Lit(0,5,0), Lit(0,5,1),
       Lit(0,5,2), Lit(0,5,6), Lit(0,6,0), Lit(0,6,4), Lit(0,6,8), Lit(0,7,0), Lit(0,7,2), Lit(0,7,4),
       Lit(0,7,6), Lit(0,8,4), Lit(0,8,6), Lit(0,9,0), Lit(0,9,2), Lit(0,9,6), Lit(1,0,0), Lit(1,0,4),
       Lit(1,0,8), Lit(1,1,2), Lit(1,1,6), Lit(1,2,0), Lit(1,2,4), Lit(1,3,2), Lit(1,3,6), Lit(1,4,0),
       Lit(1,4,4), Lit(1,4,8), Lit(1,5,2), Lit(1,5,6), Lit(1,5,8), Lit(1,6,2), Lit(1,6,6), Lit(1,7,0),
       Lit(1,7,4), Lit(1,7,5), Lit(1,7,8), Lit(1,8,0), Lit(1,8,4), Lit(1,8,8), Lit(1,9,1), Lit(1,9,2),
       Lit(1,9,6), Lit(2,0,3), Lit(2,0,4), Lit(2,0,8), Lit(2,1,2), Lit(2,1,4), Lit(2,1,8), Lit(2,2,2),
       Lit(2,2,6), Lit(2,3,1), Lit(2,3,2), Lit(2,3,3), Lit(2,3,4), Lit(2,3,8), Lit(2,3,9), Lit(2,4,2),
       Lit(2,4,6), Lit(2,4,8), Lit(2,5,0), Lit(2,5,4), Lit(2,5,8), Lit(2,6,0), Lit(2,6,2), Lit(2,6,6),
       Lit(2,6,8), Lit(2,7,0), Lit(2,7,5), Lit(2,7,6), Lit(2,8,8), Lit(2,9,2), Lit(2,9,6), Lit(3,0,0),
       Lit(3,0,4), Lit(3,0,8), Lit(3,1,2), Lit(3,1,6), Lit(3,2,0), Lit(3,2,4), Lit(3,2,8), Lit(3,3,2),
       Lit(3,3,4), Lit(3,3,6), Lit(3,4,0), Lit(3,4,4), Lit(3,4,8), Lit(3,5,2), Lit(3,5,6), Lit(3,6,0),
       Lit(3,6,4), Lit(3,6,8), Lit(3,7,2), Lit(3,7,6), Lit(3,8,0), Lit(3,8,4), Lit(3,8,8), Lit(3,9,2),
       Lit(3,9,8), Lit(4,0,0), Lit(4,0,4), Lit(4,0,8), Lit(4,1,0), Lit(4,1,4), Lit(4,1,7), Lit(4,1,8),
       Lit(4,2,2), Lit(4,2,6), Lit(4,2,8), Lit(4,3,0), Lit(4,3,4), Lit(4,3,8), Lit(4,4,0), Lit(4,4,2),
       Lit(4,4,6), Lit(4,5,0), Lit(4,5,4), Lit(4,5,8), Lit(4,6,2), Lit(4,6,6), Lit(4,7,0), Lit(4,7,4),
       Lit(4,7,8), Lit(4,8,0), Lit(4,8,4), Lit(4,9,2), Lit(4,9,6), Lit(4,9,8), Lit(4,9,9), Lit(5,0,0),
       Lit(5,0,4), Lit(5,0,8), Lit(5,1,2), Lit(5,1,6), Lit(5,2,0), Lit(5,2,4), Lit(5,2,8), Lit(5,3,1),
       Lit(5,3,3), Lit(5,3,4), Lit(5,3,5), Lit(5,4,0), Lit(5,4,8), Lit(5,5,4), Lit(5,5,8), Lit(5,6,2),
       Lit(5,6,6), Lit(5,7,0), Lit(5,7,4), Lit(5,7,8), Lit(5,8,0), Lit(5,8,1), Lit(5,8,3), Lit(5,8,4),
       Lit(5,8,5), Lit(5,8,6), Lit(5,9,1), Lit(5,9,8), Lit(6,0,0), Lit(6,0,4), Lit(6,0,8), Lit(6,1,2),
       Lit(6,1,6), Lit(6,2,0), Lit(6,2,4), Lit(6,2,6), Lit(6,3,0), Lit(6,3,4), Lit(6,3,8), Lit(6,4,2),
       Lit(6,4,3), Lit(6,4,6), Lit(6,5,2), Lit(6,5,4), Lit(6,5,9), Lit(6,6,0), Lit(6,6,2), Lit(6,6,3),
       Lit(6,6,6), Lit(6,7,0), Lit(6,7,4), Lit(6,7,8), Lit(6,8,2), Lit(6,8,6), Lit(6,8,8), Lit(6,9,0),
       Lit(6,9,4), Lit(7,0,2), Lit(7,0,3), Lit(7,0,4), Lit(7,0,5), Lit(7,0,6), Lit(7,1,0), Lit(7,1,6),
       Lit(7,2,4), Lit(7,2,8), Lit(7,2,9), Lit(7,3,2), Lit(7,4,0), Lit(7,4,4), Lit(7,4,8), Lit(7,5,2),
       Lit(7,5,6), Lit(7,6,0), Lit(7,6,2), Lit(7,6,4), Lit(7,6,8), Lit(7,7,2), Lit(7,7,6), Lit(7,8,0),
       Lit(7,8,4), Lit(7,8,8), Lit(7,9,2), Lit(7,9,5), Lit(7,9,6), Lit(7,9,8), Lit(8,0,0), Lit(8,0,4),
       Lit(8,0,7), Lit(8,1,8), Lit(8,2,6), Lit(8,3,1), Lit(8,3,2), Lit(8,3,3), Lit(8,3,4), Lit(8,4,0),
       Lit(8,5,0), Lit(8,5,4), Lit(8,5,8), Lit(8,6,0), Lit(8,6,2), Lit(8,7,6), Lit(8,8,2), Lit(8,8,7),
       Lit(8,9,4) }

UNIT_TEST_FAIL ==
    { <<>>, <<48>>, <<48, 48>>, Lit(0,0,0), <<48, 48, 48, 48>>, <<95, 56, 57, 52>>, <<56, 57, 52, 95>>, Lit(9,9,9),
       <<65, 65, 65>>, Lit(0,0,0), Lit(0,0,1), Lit(0,0,2), Lit(0,0,3), Lit(0,0,5), Lit(0,0,6), Lit(0,0,7),
       Lit(0,0,9), Lit(0,1,1), Lit(0,1,3), Lit(0,1,4), Lit(0,1,5), Lit(0,1,7), Lit(0,1,8), Lit(0,1,9),
       Lit(0,2,1), Lit(0,2,2), Lit(0,2,3), Lit(0,2,5), Lit(0,2,6), Lit(0,2,7), Lit(0,2,9), Lit(0,3,0),
       Lit(0,3,3), Lit(0,3,4), Lit(0,3,5), Lit(0,3,7), Lit(0,3,8), Lit(0,3,9), Lit(0,4,1), Lit(0,4,2),
       Lit(0,4,3), Lit(0,4,5), Lit(0,4,6), Lit(0,4,7), Lit(0,4,9), Lit(0,5,3), Lit(0,5,4), Lit(0,5,5),
       Lit(0,5,7), Lit(0,5,8), Lit(0,5,9), Lit(0,6,1), Lit(0,6,2), Lit(0,6,3), Lit(0,6,5), Lit(0,6,6),
       Lit(0,6,7), Lit(0,6,9), Lit(0,7,1), Lit(0,7,3), Lit(0,7,5), Lit(0,7,7), Lit(0,7,8), Lit(0,7,9),
       Lit(0,8,0), Lit(0,8,1), Lit(0,8,2), Lit(0,8,3), Lit(0,8,5), Lit(0,8,7), Lit(0,8,8), Lit(0,8,9),
       Lit(0,9,1), Lit(0,9,3), Lit(0,9,4), Lit(0,9,5), Lit(0,9,7), Lit(0,9,8), Lit(0,9,9), Lit(1,0,1),
       Lit(1,0,2), Lit(1,0,3), Lit(1,0,5), Lit(1,0,6), Lit(1,0,7), Lit(1,0,9), Lit(1,1,0), Lit(1,1,1),
       Lit(1,1,3), Lit(1,1,4), Lit(1,1,5), Lit(1,1,7), Lit(1,1,8), Lit(1,1,9), Lit(1,2,1), Lit(1,2,2),
       Lit(1,2,3), Lit(1,2,5), Lit(1,2,6), Lit(1,2,7), Lit(1,2,8), Lit(1,2,9), Lit(1,3,0), Lit(1,3,1),
       Lit(1,3,3), Lit(1,3,4), Lit(1,3,5), Lit(1,3,7), Lit(1,3,8), Lit(1,3,9), Lit(1,4,1), Lit(1,4,2),
       Lit(1,4,3), Lit(1,4,5), Lit(1,4,6), Lit(1,4,7), Lit(1,4,9), Lit(1,5,0), Lit(1,5,1), Lit(1,5,3),
       Lit(1,5,4), Lit(1,5,5), Lit(1,5,7), Lit(1,5,9), Lit(1,6,0), Lit(1,6,1), Lit(1,6,3), Lit(1,6,4),
       Lit(1,6,5), Lit(1,6,7), Lit(1,6,8), Lit(1,6,9), Lit(1,7,1), Lit(1,7,2), Lit(1,7,3), Lit(1,7,6),
       Lit(1,7,7), Lit(1,7,9), Lit(1,8,1), Lit(1,8,2), Lit(1,8,3), Lit(1,8,5), Lit(1,8,6), Lit(1,8,7),
       Lit(1,8,9), Lit(1,9,0), Lit(1,9,3), Lit(1,9,4), Lit(1,9,5), Lit(1,9,7), Lit(1,9,8), Lit(1,9,9),
       Lit(2,0,0), Lit(2,0,1), Lit(2,0,2), Lit(2,0,5), Lit(2,0,6), Lit(2,0,7), Lit(2,0,9), Lit(2,1,0),
       Lit(2,1,1), Lit(2,1,3), Lit(2,1,5), Lit(2,1,6), Lit(2,1,7), Lit(2,1,9), Lit(2,2,0), Lit(2,2,1),
       Lit(2,2,3), Lit(2,2,4), Lit(2,2,5), Lit(2,2,7), Lit(2,2,8), Lit(2,2,9), Lit(2,3,0), Lit(2,3,5),
       Lit(2,3,6), Lit(2,3,7), Lit(2,4,0), Lit(2,4,1), Lit(2,4,3), Lit(2,4,4), Lit(2,4,5), Lit(2,4,7),
       Lit(2,4,9), Lit(2,5,1), Lit(2,5,2), Lit(2,5,3), Lit(2,5,5), Lit(2,5,6), Lit(2,5,7), Lit(2,5,9),
       Lit(2,6,1), Lit(2,6,3), Lit(2,6,4), Lit(2,6,5), Lit(2,6,7), Lit(2,6,9), Lit(2,7,1), Lit(2,7,2),
       Lit(2,7,3), Lit(2,7,4), Lit(2,7,7), Lit(2,7,8), Lit(2,7,9), Lit(2,8,0), Lit(2,8,1), Lit(2,8,2),
       Lit(2,8,3), Lit(2,8,4), Lit(2,8,5), Lit(2,8,6), Lit(2,8,7), Lit(2,8,9), Lit(2,9,0), Lit(2,9,1),
       Lit(2,9,3), Lit(2,9,4), Lit(2,9,5), Lit(2,9,7), Lit(2,9,8), Lit(2,9,9), Lit(3,0,1), Lit(3,0,2),
       Lit(3,0,3), Lit(3,0,5), Lit(3,0,6), Lit(3,0,7), Lit(3,0,9), Lit(3,1,0), Lit(3,1,1), Lit(3,1,3),
       Lit(3,1,4), Lit(3,1,5), Lit(3,1,7), Lit(3,1,8), Lit(3,1,9), Lit(3,2,1), Lit(3,2,2), Lit(3,2,3),
       Lit(3,2,5), Lit(3,2,6), Lit(3,2,7), Lit(3,2,9), Lit(3,3,0), Lit(3,3,1), Lit(3,3,3), Lit(3,3,5),
       Lit(3,3,7), Lit(3,3,8), Lit(3,3,9), Lit(3,4,1), Lit(3,4,2), Lit(3,4,3), Lit(3,4,5), Lit(3,4,6),
       Lit(3,4,7), Lit(3,4,9), Lit(3,5,0), Lit(3,5,1), Lit(3,5,3), Lit(3,5,4), Lit(3,5,5), Lit(3,5,7),
       Lit(3,5,8), Lit(3,5,9), Lit(3,6,1), Lit(3,6,2), Lit(3,6,3), Lit(3,6,5), Lit(3,6,6), Lit(3,6,7),
       Lit(3,6,9), Lit(3,7,0), Lit(3,7,1), Lit(3,7,3), Lit(3,7,4), Lit(3,7,5), Lit(3,7,7), Lit(3,7,8),
       Lit(3,7,9), Lit(3,8,1), Lit(3,8,2), Lit(3,8,3), Lit(3,8,5), Lit(3,8,6), Lit(3,8,7), Lit(3,8,9),
       Lit(3,9,0), Lit(3,9,1), Lit(3,9,3), Lit(3,9,4), Lit(3,9,5), Lit(3,9,6), Lit(3,9,7), Lit(3,9,9),
       Lit(4,0,1), Lit(4,0,2), Lit(4,0,3), Lit(4,0,5), Lit(4,0,6), Lit(4,0,7), Lit(4,0,9), Lit(4,1,1),
       Lit(4,1,2), Lit(4,1,3), Lit(4,1,5), Lit(4,1,6), Lit(4,1,9), Lit(4,2,0), Lit(4,2,1), Lit(4,2,3),
       Lit(4,2,4), Lit(4,2,5), Lit(4,2,7), Lit(4,2,9), Lit(4,3,1), Lit(4,3,2), Lit(4,3,3), Lit(4,3,5),
       Lit(4,3,6), Lit(4,3,7), Lit(4,3,9), Lit(4,4,1), Lit(4,4,3), Lit(4,4,4), Lit(4,4,5), Lit(4,4,7),
       Lit(4,4,8), Lit(4,4,9), Lit(4,5,1), Lit(4,5,2), Lit(4,5,3), Lit(4,5,5), Lit(4,5,6), Lit(4,5,7),
       Lit(4,5,9), Lit(4,6,0), Lit(4,6,1), Lit(4,6,3), Lit(4,6,4), Lit(4,6,5), Lit(4,6,7), Lit(4,6,8),
       Lit(4,6,9), Lit(4,7,1), Lit(4,7,2), Lit(4,7,3), Lit(4,7,5), Lit(4,7,6), Lit(4,7,7), Lit(4,7,9),
       Lit(4,8,1), Lit(4,8,2), Lit(4,8,3), Lit(4,8,5), Lit(4,8,6), Lit(4,8,7), Lit(4,8,8), Lit(4,8,9),
       Lit(4,9,0), Lit(4,9,1), Lit(4,9,3), Lit(4,9,4), Lit(4,9,5), Lit(4,9,7), Lit(5,0,1), Lit(5,0,2),
       Lit(5,0,3), Lit(5,0,5), Lit(5,0,6), Lit(5,0,7), Lit(5,0,9), Lit(5,1,0), Lit(5,1,1), Lit(5,1,3),
       Lit(5,1,4), Lit(5,1,5), Lit(5,1,7), Lit(5,1,8), Lit(5,1,9), Lit(5,2,1), Lit(5,2,2), Lit(5,2,3),
       Lit(5,2,5), Lit(5,2,6), Lit(5,2,7), Lit(5,2,9), Lit(5,3,0), Lit(5,3,2), Lit(5,3,6), Lit(5,3,7),
       Lit(5,3,8), Lit(5,3,9), Lit(5,4,1), Lit(5,4,2), Lit(5,4,3), Lit(5,4,4), Lit(5,4,5), Lit(5,4,6),
       Lit(5,4,7), Lit(5,4,9), Lit(5,5,0), Lit(5,5,1), Lit(5,5,2), Lit(5,5,3), Lit(5,5,5), Lit(5,5,6),
       Lit(5,5,7), Lit(5,5,9), Lit(5,6,0), Lit(5,6,1), Lit(5,6,3), Lit(5,6,4), Lit(5,6,5), Lit(5,6,7),
       Lit(5,6,8), Lit(5,6,9), Lit(5,7,1), Lit(5,7,2), Lit(5,7,3), Lit(5,7,5), Lit(5,7,6), Lit(5,7,7),
       Lit(5,7,9), Lit(5,8,2), Lit(5,8,7), Lit(5,8,8), Lit(5,8,9), Lit(5,9,0), Lit(5,9,2), Lit(5,9,3),
       Lit(5,9,4), Lit(5,9,5), Lit(5,9,6), Lit(5,9,7), Lit(5,9,9), Lit(6,0,1), Lit(6,0,2), Lit(6,0,3),
       Lit(6,0,5), Lit(6,0,6), Lit(6,0,7), Lit(6,0,9), Lit(6,1,0), Lit(6,1,1), Lit(6,1,3), Lit(6,1,4),
       Lit(6,1,5), Lit(6,1,7), Lit(6,1,8), Lit(6,1,9), Lit(6,2,1), Lit(6,2,2), Lit(6,2,3), Lit(6,2,5),
       Lit(6,2,7), Lit(6,2,8), Lit(6,2,9), Lit(6,3,1), Lit(6,3,2), Lit(6,3,3), Lit(6,3,5), Lit(6,3,6),
       Lit(6,3,7), Lit(6,3,9), Lit(6,4,0), Lit(6,4,1), Lit(6,4,4), Lit(6,4,5), Lit(6,4,7), Lit(6,4,8),
       Lit(6,4,9), Lit(6,5,0), Lit(6,5,1), Lit(6,5,3), Lit(6,5,5), Lit(6,5,6), Lit(6,5,7), Lit(6,5,8),
       Lit(6,6,1), Lit(6,6,4), Lit(6,6,5), Lit(6,6,7), Lit(6,6,8), Lit(6,6,9), Lit(6,7,1), Lit(6,7,2),
       Lit(6,7,3), Lit(6,7,5), Lit(6,7,6), Lit(6,7,7), Lit(6,7,9), Lit(6,8,0), Lit(6,8,1), Lit(6,8,3),
       Lit(6,8,4), Lit(6,8,5), Lit(6,8,7), Lit(6,8,9), Lit(6,9,1), Lit(6,9,2), Lit(6,9,3), Lit(6,9,5),
       Lit(6,9,6), Lit(6,9,7), Lit(6,9,8), Lit(6,9,9), Lit(7,0,0), Lit(7,0,1), Lit(7,0,7), Lit(7,0,8),
       Lit(7,0,9), Lit(7,1,1), Lit(7,1,2), Lit(7,1,3), Lit(7,1,4), Lit(7,1,5), Lit(7,1,7), Lit(7,1,8),
       Lit(7,1,9), Lit(7,2,0), Lit(7,2,1), Lit(7,2,2), Lit(7,2,3), Lit(7,2,5), Lit(7,2,6), Lit(7,2,7),
       Lit(7,3,0), Lit(7,3,1), Lit(7,3,3), Lit(7,3,4), Lit(7,3,5), Lit(7,3,6), Lit(7,3,7), Lit(7,3,8),
       Lit(7,3,9), Lit(7,4,1), Lit(7,4,2), Lit(7,4,3), Lit(7,4,5), Lit(7,4,6), Lit(7,4,7), Lit(7,4,9),
       Lit(7,5,0), Lit(7,5,1), Lit(7,5,3), Lit(7,5,4), Lit(7,5,5), Lit(7,5,7), Lit(7,5,8), Lit(7,5,9),
       Lit(7,6,1), Lit(7,6,3), Lit(7,6,5), Lit(7,6,6), Lit(7,6,7), Lit(7,6,9), Lit(7,7,0), Lit(7,7,1),
       Lit(7,7,3), Lit(7,7,4), Lit(7,7,5), Lit(7,7,7), Lit(7,7,8), Lit(7,7,9), Lit(7,8,1), Lit(7,8,2),
       Lit(7,8,3), Lit(7,8,5), Lit(7,8,6), Lit(7,8,7), Lit(7,8,9), Lit(7,9,0), Lit(7,9,1), Lit(7,9,3),
       Lit(7,9,4), Lit(7,9,7), Lit(7,9,9), Lit(8,0,1), Lit(8,0,2), Lit(8,0,3), Lit(8,0,5), Lit(8,0,6),
       Lit(8,0,8), Lit(8,0,9), Lit(8,1,0), Lit(8,1,1), Lit(8,1,2), Lit(8,1,3), Lit(8,1,4), Lit(8,1,5),
       Lit(8,1,6), Lit(8,1,7), Lit(8,1,9), Lit(8,2,0), Lit(8,2,1), Lit(8,2,2), Lit(8,2,3), Lit(8,2,4),
       Lit(8,2,5), Lit(8,2,7), Lit(8,2,8), Lit(8,2,9), Lit(8,3,0), Lit(8,3,5), Lit(8,3,6), Lit(8,3,7),
       Lit(8,3,8), Lit(8,3,9), Lit(8,4,1), Lit(8,4,2), Lit(8,4,3), Lit(8,4,4), Lit(8,4,5), Lit(8,4,6),
       Lit(8,4,7), Lit(8,4,8), Lit(8,4,9), Lit(8,5,1), Lit(8,5,2), Lit(8,5,3), Lit(8,5,5), Lit(8,5,6),
       Lit(8,5,7), Lit(8,5,9), Lit(8,6,1), Lit(8,6,3), Lit(8,6,4), Lit(8,6,5), Lit(8,6,6), Lit(8,6,7),
       Lit(8,6,8), Lit(8,6,9), Lit(8,7,0), Lit(8,7,1), Lit(8,7,2), Lit(8,7,3), Lit(8,7,4), Lit(8,7,5),
       Lit(8,7,7), Lit(8,7,8), Lit(8,7,9), Lit(8,8,0), Lit(8,8,1), Lit(8,8,3), Lit(8,8,4), Lit(8,8,5),
       Lit(8,8,6), Lit(8,8,8), Lit(8,8,9), Lit(8,9,0), Lit(8,9,1), Lit(8,9,2), Lit(8,9,3), Lit(8,9,5),
       Lit(8,9,6), Lit(8,9,7), Lit(8,9,8), Lit(8,9,9), Lit(9,0,0), Lit(9,0,1), Lit(9,0,2), Lit(9,0,3),
       Lit(9,0,4), Lit(9,0,5), Lit(9,0,6), Lit(9,0,7), Lit(9,0,8), Lit(9,0,9), Lit(9,1,0), Lit(9,1,1),
       Lit(9,1,2), Lit(9,1,3), Lit(9,1,4), Lit(9,1,5), Lit(9,1,6), Lit(9,1,7), Lit(9,1,8), Lit(9,1,9),
       Lit(9,2,0), Lit(9,2,1), Lit(9,2,2), Lit(9,2,3), Lit(9,2,4), Lit(9,2,5), Lit(9,2,6), Lit(9,2,7),
       Lit(9,2,8), Lit(9,2,9), Lit(9,3,0), Lit(9,3,1), Lit(9,3,2), Lit(9,3,3), Lit(9,3,4), Lit(9,3,5),
       Lit(9,3,6), Lit(9,3,7), Lit(9,3,8), Lit(9,3,9), Lit(9,4,0), Lit(9,4,1), Lit(9,4,2), Lit(9,4,3),
       Lit(9,4,4), Lit(9,4,5), Lit(9,4,6), Lit(9,4,7), Lit(9,4,8), Lit(9,4,9), Lit(9,5,0), Lit(9,5,1),
       Lit(9,5,2), Lit(9,5,3), Lit(9,5,4), Lit(9,5,5), Lit(9,5,6), Lit(9,5,7), Lit(9,5,8), Lit(9,5,9),
       Lit(9,6,0), Lit(9,6,1), Lit(9,6,2), Lit(9,6,3), Lit(9,6,4), Lit(9,6,5), Lit(9,6,6), Lit(9,6,7),
       Lit(9,6,8), Lit(9,6,9), Lit(9,7,0), Lit(9,7,1), Lit(9,7,2), Lit(9,7,3), Lit(9,7,4), Lit(9,7,5),
       Lit(9,7,6), Lit(9,7,7), Lit(9,7,8), Lit(9,7,9), Lit(9,8,0), Lit(9,8,1), Lit(9,8,2), Lit(9,8,3),
       Lit(9,8,4), Lit(9,8,5), Lit(9,8,6), Lit(9,8,7), Lit(9,8,8), Lit(9,8,9), Lit(9,9,0), Lit(9,9,1),
       Lit(9,9,2), Lit(9,9,3), Lit(9,9,4), Lit(9,9,5), Lit(9,9,6), Lit(9,9,7), Lit(9,9,8), Lit(9,9,9) }

----------------------------------------------------------------------------
\* The inputs a caller passes.

Digits == 48..57

\* Every three-digit decimal string "000" .. "999".
ThreeDigit == { <<a, b, c>> : a \in Digits, b \in Digits, c \in Digits }

\* '/', '0', '4', '8', 'A', '_': bytes below, among and above the digits.
Alphabet == {47, 48, 52, 56, 65, 95}

RECURSIVE StringsUpTo(_)
StringsUpTo(n) ==
    IF n = 0 THEN { <<>> }
    ELSE LET shorter == StringsUpTo(n - 1)
         IN  shorter \cup { Append(str, c) : str \in { t \in shorter : Len(t) = n - 1 },
                                              c \in Alphabet }

\* Every proper prefix of a table entry.
Prefixes == { SubSeq(iso3166[i], 1, k) : i \in 1..Len(iso3166), k \in 0..2 }

\* Every table entry with one byte prepended or appended.
Extended ==
    { <<c>> \o iso3166[i] : i \in 1..Len(iso3166), c \in Alphabet }
    \cup { Append(iso3166[i], c) : i \in 1..Len(iso3166), c \in Alphabet }

Strings == ThreeDigit \cup StringsUpTo(MaxLen) \cup Prefixes \cup Extended

\* Contents of the caller's output objects before a call.
PriorVals == {0, 77}

----------------------------------------------------------------------------
\* gs1_lint_iso3166, gs1_lint_iso4217 and the lookup they share

\* The static array the lookup of the running function searches.
Table ==
    CASE fn = "gs1_lint_iso3166" -> iso3166
      [] fn = "gs1_lint_iso4217" -> iso4217
      [] OTHER -> ref_set

\* The result code of the running function for an input not in its table.
ErrorCode ==
    CASE fn = "gs1_lint_iso4217" -> GS1_LINTER_NOT_ISO4217
      [] OTHER -> GS1_LINTER_NOT_ISO3166

Init ==
    /\ pc = "idle"
    /\ data = NULL
    /\ data_str = <<>>
    /\ err_pos = NULL
    /\ err_len = NULL
    /\ star_err_pos = 0
    /\ star_err_len = 0
    /\ valid = 0
    /\ s = 0
    /\ e = 0
    /\ m = 0
    /\ cmp = 0
    /\ ret = "none"
    /\ writes = {}
    /\ probes = 0
    /\ fn = "none"
    /\ lookup = "none"
    /\ ref_set = <<>>
    /\ remembered = <<>>
    /\ other = <<>>
    /\ ndebug = FALSE

\* Mutant of Call: a character-class check ahead of the lookup, which is
\* skipped for an input holding a byte that is no digit.
Call_precheck(d, str, p, l, pv, lv) ==
    /\ pc = "idle"
    /\ data' = d
    /\ data_str' = str
    /\ err_pos' = p
    /\ err_len' = l
    /\ star_err_pos' = pv
    /\ star_err_len' = lv
    /\ valid' = 0
    /\ ret' = "none"
    /\ writes' = {}
    /\ probes' = 0
    /\ m' = 0
    /\ cmp' = 0
    /\ s' = 0
    /\ e' = 0
    /\ pc' = IF d = NULL THEN "abort"
             ELSE IF \E i \in 1..Len(str) : str[i] \notin 48..57 THEN "after"
             ELSE "loop"
    /\ fn' = "gs1_lint_iso3166"
    /\ lookup' = "default"
    /\ ndebug' = FALSE
    /\ UNCHANGED <<ref_set, remembered, other>>

\* Mutant of Call: static int valid = 0, initialised once and not per call.
Call_staticvalid(d, str, p, l, pv, lv) ==
    /\ pc = "idle"
    /\ data' = d
    /\ data_str' = str
    /\ err_pos' = p
    /\ err_len' = l
    /\ star_err_pos' = pv
    /\ star_err_len' = lv
    /\ valid' = valid
    /\ ret' = "none"
    /\ writes' = {}
    /\ probes' = 0
    /\ m' = 0
    /\ cmp' = 0
    /\ IF d = NULL
       THEN /\ pc' = "abort"
            /\ s' = 0
            /\ e' = 0
       ELSE /\ pc' = "loop"
            /\ s' = 0
            /\ e' = iso3166_count
    /\ fn' = "gs1_lint_iso3166"
    /\ lookup' = "default"
    /\ ndebug' = FALSE
    /\ UNCHANGED <<ref_set, remembered, other>>

\* Mutant of Call: the function without assert(data); the reads through a
\* null data are taken to yield the empty string.
Call_noassert(d, str, p, l, pv, lv) ==
    /\ pc = "idle"
    /\ data' = d
    /\ data_str' = str
    /\ err_pos' = p
    /\ err_len' = l
    /\ star_err_pos' = pv
    /\ star_err_len' = lv
    /\ valid' = 0
    /\ ret' = "none"
    /\ writes' = {}
    /\ probes' = 0
    /\ m' = 0
    /\ cmp' = 0
    /\ pc' = "loop"
    /\ s' = 0
    /\ e' = iso3166_count
    /\ fn' = "gs1_lint_iso3166"
    /\ lookup' = "default"
    /\ ndebug' = FALSE
    /\ UNCHANGED <<ref_set, remembered, other>>

\* The caller calls gs1_lint_iso3166(data, err_pos, err_len); the call runs
\* int valid = 0, assert(data) and the lookup's size_t s = 0, size_t e = ...
Call(d, str, p, l, pv, lv) ==
    /\ pc = "idle"
    /\ data' = d
    /\ data_str' = str
    /\ err_pos' = p
    /\ err_len' = l
    /\ star_err_pos' = pv
    /\ star_err_len' = lv
    /\ valid' = 0
    /\ ret' = "none"
    /\ writes' = {}
    /\ probes' = 0
    /\ m' = 0
    /\ cmp' = 0
    /\ IF d = NULL
       THEN /\ pc' = "abort"
            /\ s' = 0
            /\ e' = 0
       ELSE /\ pc' = "loop"
            /\ s' = 0
            /\ e' = iso3166_count
    /\ fn' = "gs1_lint_iso3166"
    /\ lookup' = "default"
    /\ ndebug' = FALSE
    /\ UNCHANGED <<ref_set, remembered, other>>

\* The largest value of a size_t where the type is as narrow as C allows.
SIZE_MAX == 65535

\* The value of x as a size_t: the result of unsigned arithmetic is reduced
\* modulo SIZE_MAX + 1.
AsSizeT(x) == x % (SIZE_MAX + 1)

\* Mutant of StepLess: s = m + 2, one entry too far.
StepLess_skip ==
    /\ pc = "loop"
    /\ s < e
    /\ LET mid == s + (e - s) \div 2
           c == strcmp(Table[mid + 1], data_str)
       IN  /\ c < 0
           /\ m' = mid
           /\ cmp' = c
           /\ probes' = probes + 1
           /\ s' = mid + 2
    /\ UNCHANGED <<pc, data, data_str, err_pos, err_len, star_err_pos,
                   star_err_len, valid, e, ret, writes>>
    /\ UNCHANGED <<fn, lookup, ref_set, remembered, other, ndebug>>

\* Mutant of StepLess: s = m, the probed entry kept in the interval.
StepLess_stay ==
    /\ pc = "loop"
    /\ s < e
    /\ LET mid == s + (e - s) \div 2
           c == strcmp(Table[mid + 1], data_str)
       IN  /\ c < 0
           /\ m' = mid
           /\ cmp' = c
           /\ probes' = probes + 1
           /\ s' = mid
    /\ UNCHANGED <<pc, data, data_str, err_pos, err_len, star_err_pos,
                   star_err_len, valid, e, ret, writes>>
    /\ UNCHANGED <<fn, lookup, ref_set, remembered, other, ndebug>>

\* Mutant of StepLess: a linear search, the probe at s and not at the middle.
StepLess_sequential ==
    /\ pc = "loop"
    /\ s < e
    /\ LET mid == s
           c == strcmp(Table[mid + 1], data_str)
       IN  /\ c < 0
           /\ m' = mid
           /\ cmp' = c
           /\ probes' = probes + 1
           /\ s' = AsSizeT(mid + 1)
    /\ UNCHANGED <<pc, data, data_str, err_pos, err_len, star_err_pos,
                   star_err_len, valid, e, ret, writes>>
    /\ UNCHANGED <<fn, lookup, ref_set, remembered, other, ndebug>>

\* One iteration of while (s < e) whose probe is below the input.
StepLess ==
    /\ pc = "loop"
    /\ s < e
    /\ LET mid == AsSizeT(s + AsSizeT(e - s) \div 2)
           c == strcmp(Table[mid + 1], data_str)
       IN  /\ c < 0
           /\ m' = mid
           /\ cmp' = c
           /\ probes' = probes + 1
           /\ s' = AsSizeT(mid + 1)
    /\ UNCHANGED <<pc, data, data_str, err_pos, err_len, star_err_pos,
                   star_err_len, valid, e, ret, writes>>
    /\ UNCHANGED <<fn, lookup, ref_set, remembered, other, ndebug>>

\* Mutant of StepGreater: the branch else if (cmp > 0) e = m dropped, so that
\* a probe above the input falls into the final else.
StepGreater_accept ==
    /\ pc = "loop"
    /\ s < e
    /\ LET mid == s + (e - s) \div 2
           c == strcmp(Table[mid + 1], data_str)
       IN  /\ c > 0
           /\ m' = mid
           /\ cmp' = c
           /\ probes' = probes + 1
           /\ valid' = 1
           /\ pc' = "after"
    /\ UNCHANGED <<data, data_str, err_pos, err_len, star_err_pos,
                   star_err_len, s, e, ret, writes>>
    /\ UNCHANGED <<fn, lookup, ref_set, remembered, other, ndebug>>

\* Mutant of StepGreater: e = m - 1, the upper bound treated as inclusive.
StepGreater_inclusive ==
    /\ pc = "loop"
    /\ s < e
    /\ LET mid == s + (e - s) \div 2
           c == strcmp(Table[mid + 1], data_str)
       IN  /\ c > 0
           /\ m' = mid
           /\ cmp' = c
           /\ probes' = probes + 1
           /\ e' = mid - 1
    /\ UNCHANGED <<pc, data, data_str, err_pos, err_len, star_err_pos,
                   star_err_len, valid, s, ret, writes>>
    /\ UNCHANGED <<fn, lookup, ref_set, remembered, other, ndebug>>

\* Mutant of StepGreater: e = m + 1, one entry above the probe kept.
StepGreater_slack ==
    /\ pc = "loop"
    /\ s < e
    /\ LET mid == s + (e - s) \div 2
           c == strcmp(Table[mid + 1], data_str)
       IN  /\ c > 0
           /\ m' = mid
           /\ cmp' = c
           /\ probes' = probes + 1
           /\ e' = mid + 1
    /\ UNCHANGED <<pc, data, data_str, err_pos, err_len, star_err_pos,
                   star_err_len, valid, s, ret, writes>>
    /\ UNCHANGED <<fn, lookup, ref_set, remembered, other, ndebug>>

\* Mutant of StepGreater: e = m - 1 in size_t arithmetic, which wraps to
\* SIZE_MAX when m is 0.
StepGreater_wrap ==
    /\ pc = "loop"
    /\ s < e
    /\ LET mid == AsSizeT(s + AsSizeT(e - s) \div 2)
           c == strcmp(Table[mid + 1], data_str)
       IN  /\ c > 0
           /\ m' = mid
           /\ cmp' = c
           /\ probes' = probes + 1
           /\ e' = AsSizeT(mid - 1)
    /\ UNCHANGED <<pc, data, data_str, err_pos, err_len, star_err_pos,
                   star_err_len, valid, s, ret, writes>>
    /\ UNCHANGED <<fn, lookup, ref_set, remembered, other, ndebug>>

\* One iteration whose probe is above the input.
StepGreater ==
    /\ pc = "loop"
    /\ s < e
    /\ LET mid == AsSizeT(s + AsSizeT(e - s) \div 2)
           c == strcmp(Table[mid + 1], data_str)
       IN  /\ c > 0
           /\ m' = mid
           /\ cmp' = c
           /\ probes' = probes + 1
           /\ e' = mid
    /\ UNCHANGED <<pc, data, data_str, err_pos, err_len, star_err_pos,
                   star_err_len, valid, s, ret, writes>>
    /\ UNCHANGED <<fn, lookup, ref_set, remembered, other, ndebug>>

\* Mutant of StepEqual: valid = 1 without the break; the loop goes on below the
\* probe.
StepEqual_nobreak ==
    /\ pc = "loop"
    /\ s < e
    /\ LET mid == s + (e - s) \div 2
           c == strcmp(Table[mid + 1], data_str)
       IN  /\ c = 0
           /\ m' = mid
           /\ cmp' = c
           /\ probes' = probes + 1
           /\ valid' = 1
           /\ e' = mid
    /\ UNCHANGED <<pc, data, data_str, err_pos, err_len, star_err_pos,
                   star_err_len, s, ret, writes>>
    /\ UNCHANGED <<fn, lookup, ref_set, remembered, other, ndebug>>

\* One iteration whose probe equals the input: valid = 1; break.
StepEqual ==
    /\ pc = "loop"
    /\ s < e
    /\ LET mid == AsSizeT(s + AsSizeT(e - s) \div 2)
           c == strcmp(Table[mid + 1], data_str)
       IN  /\ c = 0
           /\ m' = mid
           /\ cmp' = c
           /\ probes' = probes + 1
           /\ valid' = 1
           /\ pc' = "after"
    /\ UNCHANGED <<data, data_str, err_pos, err_len, star_err_pos,
                   star_err_len, s, e, ret, writes>>
    /\ UNCHANGED <<fn, lookup, ref_set, remembered, other, ndebug>>

\* while (s < e) is false: the loop ends.
LoopExit ==
    /\ pc = "loop"
    /\ ~(s < e)
    /\ pc' = "after"
    /\ UNCHANGED <<data, data_str, err_pos, err_len, star_err_pos,
                   star_err_len, valid, s, e, m, cmp, ret, writes, probes>>
    /\ UNCHANGED <<fn, lookup, ref_set, remembered, other, ndebug>>

\* Mutant of ReturnOK: the outputs cleared on success, *err_pos = 0 and
\* *err_len = 0 where supplied.
ReturnOK_clears ==
    /\ pc = "after"
    /\ valid # 0
    /\ star_err_pos' = IF err_pos # NULL THEN 0 ELSE star_err_pos
    /\ star_err_len' = IF err_len # NULL THEN 0 ELSE star_err_len
    /\ writes' = writes \cup ({err_pos, err_len} \ {NULL})
    /\ ret' = GS1_LINTER_OK
    /\ pc' = "done"
    /\ UNCHANGED <<data, data_str, err_pos, err_len, valid, s, e, m, cmp, probes>>
    /\ UNCHANGED <<fn, lookup, ref_set, remembered, other, ndebug>>

\* if (valid) return GS1_LINTER_OK;
ReturnOK ==
    /\ pc = "after"
    /\ valid # 0
    /\ ret' = GS1_LINTER_OK
    /\ pc' = "done"
    /\ UNCHANGED <<data, data_str, err_pos, err_len, star_err_pos,
                   star_err_len, valid, s, e, m, cmp, writes, probes>>
    /\ UNCHANGED <<fn, lookup, ref_set, remembered, other, ndebug>>

\* Mutant of ReturnError: the two stores exchanged.
ReturnError_swapped ==
    /\ pc = "after"
    /\ valid = 0
    /\ star_err_pos' = IF err_pos # NULL THEN strlen(data_str) ELSE star_err_pos
    /\ star_err_len' = IF err_len # NULL THEN 0 ELSE star_err_len
    /\ writes' = writes \cup (IF err_pos # NULL THEN {err_pos} ELSE {})
                       \cup (IF err_len # NULL THEN {err_len} ELSE {})
    /\ ret' = GS1_LINTER_NOT_ISO3166
    /\ pc' = "done"
    /\ UNCHANGED <<data, data_str, err_pos, err_len, valid, s, e, m, cmp, probes>>
    /\ UNCHANGED <<fn, lookup, ref_set, remembered, other, ndebug>>

\* Mutant of ReturnError: the store to *err_len nested under if (err_pos).
ReturnError_nested ==
    /\ pc = "after"
    /\ valid = 0
    /\ star_err_pos' = IF err_pos # NULL THEN 0 ELSE star_err_pos
    /\ star_err_len' = IF err_pos # NULL /\ err_len # NULL
                       THEN strlen(data_str) ELSE star_err_len
    /\ writes' = writes \cup (IF err_pos # NULL THEN {err_pos} ELSE {})
                       \cup (IF err_pos # NULL /\ err_len # NULL THEN {err_len} ELSE {})
    /\ ret' = GS1_LINTER_NOT_ISO3166
    /\ pc' = "done"
    /\ UNCHANGED <<data, data_str, err_pos, err_len, valid, s, e, m, cmp, probes>>
    /\ UNCHANGED <<fn, lookup, ref_set, remembered, other, ndebug>>

\* Mutant of ReturnError: the result code of the iso4217 linter returned for
\* an input that is not three bytes long.
ReturnError_othercode ==
    /\ pc = "after"
    /\ valid = 0
    /\ star_err_pos' = IF err_pos # NULL THEN 0 ELSE star_err_pos
    /\ star_err_len' = IF err_len # NULL THEN strlen(data_str) ELSE star_err_len
    /\ writes' = writes \cup (IF err_pos # NULL THEN {err_pos} ELSE {})
                       \cup (IF err_len # NULL THEN {err_len} ELSE {})
    /\ ret' = IF strlen(data_str) = 3 THEN GS1_LINTER_NOT_ISO3166
                                      ELSE "GS1_LINTER_NOT_ISO4217"
    /\ pc' = "done"
    /\ UNCHANGED <<data, data_str, err_pos, err_len, valid, s, e, m, cmp, probes>>
    /\ UNCHANGED <<fn, lookup, ref_set, remembered, other, ndebug>>

\* Mutant of ReturnError: the two stores made without the tests for NULL.
ReturnError_unguarded ==
    /\ pc = "after"
    /\ valid = 0
    /\ star_err_pos' = 0
    /\ star_err_len' = strlen(data_str)
    /\ writes' = writes \cup {"&err_pos", "&err_len"}
    /\ ret' = GS1_LINTER_NOT_ISO3166
    /\ pc' = "done"
    /\ UNCHANGED <<data, data_str, err_pos, err_len, valid, s, e, m, cmp, probes>>
    /\ UNCHANGED <<fn, lookup, ref_set, remembered, other, ndebug>>

\* if (err_pos) *err_pos = 0; if (err_len) *err_len = strlen(data);
\* return GS1_LINTER_NOT_ISO3166;
ReturnError ==
    /\ pc = "after"
    /\ valid = 0
    /\ star_err_pos' = IF err_pos # NULL THEN 0 ELSE star_err_pos
    /\ star_err_len' = IF err_len # NULL THEN strlen(data_str) ELSE star_err_len
    /\ writes' = writes \cup (IF err_pos # NULL THEN {err_pos} ELSE {})
                       \cup (IF err_len # NULL THEN {err_len} ELSE {})
    /\ ret' = ErrorCode
    /\ pc' = "done"
    /\ UNCHANGED <<data, data_str, err_pos, err_len, valid, s, e, m, cmp, probes>>
    /\ UNCHANGED <<fn, lookup, ref_set, remembered, other, ndebug>>

\* The call has returned: its locals are gone and the caller, having read the
\* result, is ready for its next call.
CallerContinues ==
    /\ pc = "done"
    /\ pc' = "idle"
    /\ data' = NULL
    /\ data_str' = <<>>
    /\ err_pos' = NULL
    /\ err_len' = NULL
    /\ star_err_pos' = 0
    /\ star_err_len' = 0
    /\ valid' = 0
    /\ s' = 0
    /\ e' = 0
    /\ m' = 0
    /\ cmp' = 0
    /\ ret' = "none"
    /\ writes' = {}
    /\ probes' = 0
    /\ fn' = "none"
    /\ lookup' = "none"
    /\ ndebug' = FALSE
    /\ UNCHANGED <<ref_set, remembered, other>>

\* The caller's next call with a string as data; each output pointer supplied
\* or NULL, each output object holding any prior contents.
CallString ==
    /\ pc = "idle"
    /\ \E str \in Strings, p \in {NULL, "&err_pos"}, l \in {NULL, "&err_len"},
          pv \in PriorVals, lv \in PriorVals :
              Call("&data", str, p, l, pv, lv)

\* A null pointer as data: assert(data) stops the call (NDEBUG not defined).
CallNull ==
    /\ pc = "idle"
    /\ \E p \in {NULL, "&err_pos"}, l \in {NULL, "&err_len"},
          pv \in PriorVals, lv \in PriorVals :
              Call(NULL, <<>>, p, l, pv, lv)

Next ==
    \/ CallString
    \/ CallNull
    \/ StepLess
    \/ StepGreater
    \/ StepEqual
    \/ LoopExit
    \/ ReturnOK
    \/ ReturnError
    \/ CallerContinues

Spec == Init /\ [][Next]_vars

----------------------------------------------------------------------------
\* Properties of gs1_lint_iso3166.

\* str is byte for byte an entry of the table.
InTable(str) == \E i \in 1..Len(iso3166) : iso3166[i] = str

\* The call was made with a string and has returned.
Returned == pc = "done" /\ data # NULL

\* C1 (completeness): a call whose input is literally one of the entries of
\* the iso3166 table, whatever its index, returns GS1_LINTER_OK.
C1_Completeness ==
    (Returned /\ InTable(data_str)) => ret = GS1_LINTER_OK

\* The last entry "894" was looked up and accepted.
C1_Witness ==
    /\ Returned
    /\ data_str = iso3166[Len(iso3166)]
    /\ ret = GS1_LINTER_OK

\* C2 (soundness): a call whose input is not byte for byte (length included)
\* an entry of the table returns GS1_LINTER_NOT_ISO3166.
C2_Soundness ==
    (Returned /\ ~InTable(data_str)) => ret = GS1_LINTER_NOT_ISO3166

\* "895", the numeric successor of the last entry and above it, was rejected.
C2_Witness ==
    /\ Returned
    /\ data_str = Lit(8,9,5)
    /\ ~InTable(data_str)
    /\ ret = GS1_LINTER_NOT_ISO3166

\* C3 (exact error span): after a failing call given both output pointers,
\* *err_pos is 0 and *err_len is the length of the whole input.
C3_ErrorSpan ==
    (Returned /\ ret = GS1_LINTER_NOT_ISO3166 /\ err_pos # NULL /\ err_len # NULL)
        => (star_err_pos = 0 /\ star_err_len = Len(data_str))

\* A four-byte input was rejected with the span (0, 4) stored.
C3_Witness ==
    /\ Returned
    /\ ret = GS1_LINTER_NOT_ISO3166
    /\ Len(data_str) = 4
    /\ writes = {"&err_pos", "&err_len"}
    /\ star_err_pos = 0
    /\ star_err_len = 4

\* C4 (optional, independent outputs): a failing call stores to *err_pos
\* exactly when err_pos is not NULL and to *err_len exactly when err_len is not
\* NULL, and the result code depends on the input alone, not on which
\* pointers were given.
C4_OptionalOutputs ==
    Returned =>
        /\ ret = (IF InTable(data_str) THEN GS1_LINTER_OK ELSE GS1_LINTER_NOT_ISO3166)
        /\ ret = GS1_LINTER_NOT_ISO3166 =>
               /\ ("&err_pos" \in writes) <=> (err_pos # NULL)
               /\ ("&err_len" \in writes) <=> (err_len # NULL)
               /\ err_pos = NULL => star_err_pos \in PriorVals
               /\ err_len = NULL => star_err_len \in PriorVals

\* A failing call with err_pos NULL and err_len given stored the length only.
C4_Witness ==
    /\ Returned
    /\ ret = GS1_LINTER_NOT_ISO3166
    /\ err_pos = NULL
    /\ err_len # NULL
    /\ writes = {"&err_len"}
    /\ star_err_pos = 77
    /\ star_err_len = 1

\* C5 (two outcomes): a call with a string returns GS1_LINTER_OK or
\* GS1_LINTER_NOT_ISO3166 and nothing else, and an input that is too short, too
\* long or holds a byte that is no digit gets GS1_LINTER_NOT_ISO3166.
C5_TwoOutcomes ==
    /\ ret \in {"none", GS1_LINTER_OK, GS1_LINTER_NOT_ISO3166}
    /\ pc = "abort" => data = NULL
    /\ Returned =>
          /\ ret \in {GS1_LINTER_OK, GS1_LINTER_NOT_ISO3166}
          /\ (Len(data_str) # 3 \/ \E i \in 1..Len(data_str) : data_str[i] \notin Digits)
                => ret = GS1_LINTER_NOT_ISO3166

\* A too-short input holding a byte that is no digit was rejected.
C5_Witness ==
    /\ Returned
    /\ data_str = <<48, 65>>
    /\ ret = GS1_LINTER_NOT_ISO3166

\* C6 (empty string): the empty string compares below every entry probed, so
\* the search narrows from above until the bounds meet at 0, and the call
\* returns GS1_LINTER_NOT_ISO3166 with *err_pos = 0 and *err_len = 0.
C6_EmptyString ==
    (data # NULL /\ data_str = <<>>) =>
        /\ pc # "abort"
        /\ valid = 0
        /\ s = 0
        /\ probes > 0 => cmp > 0
        /\ pc \in {"after", "done"} => e = 0
        /\ pc = "done" =>
              /\ ret = GS1_LINTER_NOT_ISO3166
              /\ err_pos # NULL => star_err_pos = 0
              /\ err_len # NULL => star_err_len = 0

\* The call with "" has returned, having probed the table and stored (0, 0).
C6_Witness ==
    /\ Returned
    /\ data_str = <<>>
    /\ probes > 0
    /\ ret = GS1_LINTER_NOT_ISO3166
    /\ writes = {"&err_pos", "&err_len"}
    /\ star_err_pos = 0
    /\ star_err_len = 0

\* C7 (no padding, no truncation): an input whose length is not 3, such as a
\* proper prefix of an entry or an entry with a byte prepended or appended, is
\* never matched and gets GS1_LINTER_NOT_ISO3166.
C7_NoPaddingOrTruncation ==
    (data # NULL /\ Len(data_str) # 3) =>
        /\ valid = 0
        /\ pc = "done" => ret = GS1_LINTER_NOT_ISO3166

\* "0080", the entry "008" with a byte appended, was rejected.
C7_Witness ==
    /\ Returned
    /\ data_str = <<48, 48, 56, 48>>
    /\ InTable(SubSeq(data_str, 1, 3))
    /\ ret = GS1_LINTER_NOT_ISO3166

\* An input holding a byte that is no decimal digit.
Malformed(str) == \E i \in 1..Len(str) : str[i] \notin Digits

\* C8 (no character-class pre-check): an input holding a byte that is no digit
\* is searched for like any other: the loop runs, never matches, and ends with
\* the bounds met, and the call returns GS1_LINTER_NOT_ISO3166 with the span
\* (0, length of the input), as for a well-formed code that is not assigned.
C8_NoPreCheck ==
    (data # NULL /\ Malformed(data_str)) =>
        /\ valid = 0
        /\ pc \in {"after", "done"} => (probes >= 1 /\ s = e)
        /\ pc = "done" =>
              /\ ret = GS1_LINTER_NOT_ISO3166
              /\ err_pos # NULL => star_err_pos = 0
              /\ err_len # NULL => star_err_len = Len(data_str)

\* "AAA" was searched for up to the end of the table and rejected with (0, 3).
C8_Witness ==
    /\ Returned
    /\ data_str = <<65, 65, 65>>
    /\ probes >= 1
    /\ s = Len(iso3166)
    /\ e = Len(iso3166)
    /\ ret = GS1_LINTER_NOT_ISO3166
    /\ writes = {"&err_pos", "&err_len"}
    /\ star_err_pos = 0
    /\ star_err_len = 3

\* tab is in strict ascending order of strcmp, hence without duplicates.
StrictlyAscending(tab) ==
    \A i \in 1..(Len(tab) - 1) : strcmp(tab[i], tab[i + 1]) < 0

\* Every entry of tab is three bytes long.
FixedWidth(tab) == \A i \in 1..Len(tab) : Len(tab[i]) = 3

\* Both tables are strictly ascending and of fixed width 3.
TablesInOrder ==
    /\ StrictlyAscending(iso3166)
    /\ FixedWidth(iso3166)
    /\ StrictlyAscending(iso4217)
    /\ FixedWidth(iso4217)

\* C9 (reference-set invariant): the tables iso3166 and iso4217 are in strict
\* ascending byte-wise order, without duplicates, and every entry is exactly
\* three characters long; so in every state the entry the search probed last
\* is three bytes long and lies strictly between its two neighbours.
C9_TablesSorted ==
    /\ TablesInOrder
    /\ probes > 0 =>
          /\ Len(iso3166[m + 1]) = 3
          /\ m > 0 => strcmp(iso3166[m], iso3166[m + 1]) < 0
          /\ m + 1 < Len(iso3166) => strcmp(iso3166[m + 1], iso3166[m + 2]) < 0

\* The search has moved its lower bound past an entry below the input, and
\* the entry now at s is above that one.
C9_Witness ==
    /\ pc = "loop"
    /\ 0 < s
    /\ s < e
    /\ strcmp(iso3166[s], data_str) < 0
    /\ strcmp(iso3166[s], iso3166[s + 1]) < 0

\* What test_lint_iso3166 expects of the thousand three-digit strings.
TestAgreesWithTable ==
    /\ Cardinality(UNIT_TEST_PASS) = 249
    /\ UNIT_TEST_PASS = { iso3166[i] : i \in 1..Len(iso3166) }
    /\ UNIT_TEST_PASS \subseteq ThreeDigit
    /\ Cardinality(ThreeDigit \ UNIT_TEST_PASS) = 751
    /\ ThreeDigit \ UNIT_TEST_PASS \subseteq UNIT_TEST_FAIL
    /\ UNIT_TEST_PASS \cap UNIT_TEST_FAIL = {}

\* C10 (the thousand three-digit strings): the call returns GS1_LINTER_OK for
\* exactly the 249 strings the unit test lists as passing, which are the
\* entries of the table, and GS1_LINTER_NOT_ISO3166 with the span (0, 3) for
\* the other 751.
C10_ThreeDigitStrings ==
    /\ TestAgreesWithTable
    /\ (Returned /\ data_str \in ThreeDigit) =>
          IF data_str \in UNIT_TEST_PASS
          THEN ret = GS1_LINTER_OK
          ELSE /\ data_str \in UNIT_TEST_FAIL
               /\ ret = GS1_LINTER_NOT_ISO3166
               /\ err_pos # NULL => star_err_pos = 0
               /\ err_len # NULL => star_err_len = 3

\* "009", between the entries "008" and "010", was rejected with (0, 3).
C10_Witness ==
    /\ Returned
    /\ data_str = Lit(0,0,9)
    /\ InTable(Lit(0,0,8))
    /\ InTable(Lit(0,1,0))
    /\ ret = GS1_LINTER_NOT_ISO3166
    /\ writes = {"&err_pos", "&err_len"}
    /\ star_err_pos = 0
    /\ star_err_len = 3

----------------------------------------------------------------------------
\* The lookup over any reference set: the function with another table in
\* place of iso3166.

\* Largest number of entries of such a table.
MaxTable == 4

\* Codes of width 3 and of width 2 that the tables are made of.
Codes3 == { Lit(0,0,8), Lit(0,1,2), Lit(0,3,2), Lit(0,3,6), Lit(0,4,4) }
Codes2 == { <<65, 68>>, <<65, 69>>, <<66, 65>>, <<90, 87>> }

\* Every strictly ascending table of 1 .. MaxTable codes of one width.
RefSets ==
    { tab \in UNION { [1..n -> Codes3] \cup [1..n -> Codes2] : n \in 1..MaxTable } :
          StrictlyAscending(tab) }

\* The inputs: the codes, their neighbours, and strings of other lengths.
RefInputs ==
    Codes3 \cup Codes2
    \cup { <<>>, <<48>>, <<48, 48>>, <<65>>, <<65, 68, 68>>, <<65, 65>>, <<90, 90>>,
           Lit(0,0,0), Lit(0,0,7), Lit(0,0,9), Lit(0,1,1), Lit(0,1,3), Lit(0,3,3),
           Lit(0,4,5), Lit(9,9,9), <<48, 48, 56, 48>>, <<95, 48, 48, 56>> }

InitRef ==
    /\ pc = "idle"
    /\ data = NULL
    /\ data_str = <<>>
    /\ err_pos = NULL
    /\ err_len = NULL
    /\ star_err_pos = 0
    /\ star_err_len = 0
    /\ valid = 0
    /\ s = 0
    /\ e = 0
    /\ m = 0
    /\ cmp = 0
    /\ ret = "none"
    /\ writes = {}
    /\ probes = 0
    /\ fn = "none"
    /\ lookup = "none"
    /\ ref_set \in RefSets
    /\ remembered = <<>>
    /\ other = <<>>
    /\ ndebug = FALSE

\* A call of the function built over ref_set: int valid = 0, assert(data),
\* size_t s = 0, size_t e = the number of entries of the table.
CallRef ==
    /\ pc = "idle"
    /\ \E str \in RefInputs, p \in {NULL, "&err_pos"}, l \in {NULL, "&err_len"} :
          /\ data' = "&data"
          /\ data_str' = str
          /\ err_pos' = p
          /\ err_len' = l
          /\ star_err_pos' = 77
          /\ star_err_len' = 77
    /\ valid' = 0
    /\ ret' = "none"
    /\ writes' = {}
    /\ probes' = 0
    /\ m' = 0
    /\ cmp' = 0
    /\ pc' = "loop"
    /\ s' = 0
    /\ e' = Len(ref_set)
    /\ fn' = "validate"
    /\ lookup' = "default"
    /\ ndebug' = FALSE
    /\ UNCHANGED <<ref_set, remembered, other>>

NextRef ==
    \/ CallRef
    \/ StepLess
    \/ StepGreater
    \/ StepEqual
    \/ LoopExit
    \/ ReturnOK
    \/ ReturnError
    \/ CallerContinues

SpecRef == InitRef /\ [][NextRef]_vars

\* C11 (any instantiation): over every strictly ascending table of codes of
\* one width, of every size from 1 up, and for every input, the lookup reports
\* OK exactly when the input equals some entry, and a rejected input gets the
\* span (0, length of the input).
C11_AnyReferenceSet ==
    (pc = "done" /\ fn = "validate") =>
        /\ (ret = GS1_LINTER_OK) <=> (\E i \in 1..Len(ref_set) : ref_set[i] = data_str)
        /\ ret # GS1_LINTER_OK =>
              /\ ret = GS1_LINTER_NOT_ISO3166
              /\ err_pos # NULL => star_err_pos = 0
              /\ err_len # NULL => star_err_len = Len(data_str)

\* Over the table {"008", "012", "032"} the input "011" was rejected with the
\* span (0, 3).
C11_Witness ==
    /\ pc = "done"
    /\ ref_set = << Lit(0,0,8), Lit(0,1,2), Lit(0,3,2) >>
    /\ data_str = Lit(0,1,1)
    /\ ret = GS1_LINTER_NOT_ISO3166
    /\ writes = {"&err_pos", "&err_len"}
    /\ star_err_pos = 0
    /\ star_err_len = 3

----------------------------------------------------------------------------
\* A caller making call after call.  The caller notes one call and its
\* result; the locals of a call that has returned stay as they are in the
\* stack until the next call initialises them.

\* Number of calls the caller makes after the one it noted.
MaxCalls == 2

\* "004", "008" and "894" are entries; the others are not.
SeqInputs ==
    { <<>>, Lit(0,0,4), Lit(0,0,5), Lit(0,0,8), Lit(8,9,4), Lit(9,9,9), <<48, 48, 56, 48>> }

\* What the call has stored through err_pos and err_len; -1 for no store.
PosOut == IF "&err_pos" \in writes THEN star_err_pos ELSE -1
LenOut == IF "&err_len" \in writes THEN star_err_len ELSE -1

CallSeq ==
    /\ pc = "idle"
    /\ remembered # <<>> => remembered[1].later <= MaxCalls
    /\ \E str \in SeqInputs, p \in {NULL, "&err_pos"}, l \in {NULL, "&err_len"} :
          Call("&data", str, p, l, 77, 77)

\* The caller notes the arguments and the result of the call that returned.
Remember ==
    /\ pc = "done"
    /\ remembered = <<>>
    /\ remembered' = << [str |-> data_str, pos_asked |-> err_pos # NULL,
                         len_asked |-> err_len # NULL, lookup |-> lookup,
                         ret |-> ret,
                         pos |-> PosOut, len |-> LenOut, later |-> 0] >>
    /\ UNCHANGED <<pc, data, data_str, err_pos, err_len, star_err_pos,
                   star_err_len, valid, s, e, m, cmp, ret, writes, probes, fn,
                   lookup, ref_set, other, ndebug>>

\* The call has returned and the caller goes on; valid, s, e, m and cmp keep
\* their last values in the dead frame.
CallerGoesOn ==
    /\ pc = "done"
    /\ pc' = "idle"
    /\ data' = NULL
    /\ data_str' = <<>>
    /\ err_pos' = NULL
    /\ err_len' = NULL
    /\ star_err_pos' = 0
    /\ star_err_len' = 0
    /\ ret' = "none"
    /\ writes' = {}
    /\ probes' = 0
    /\ fn' = "none"
    /\ lookup' = "none"
    /\ remembered' = IF remembered = <<>> THEN <<>>
                     ELSE << [remembered[1] EXCEPT !.later = @ + 1] >>
    /\ ndebug' = FALSE
    /\ UNCHANGED <<valid, s, e, m, cmp, ref_set, other>>

NextSeq ==
    \/ CallSeq
    \/ StepLess
    \/ StepGreater
    \/ StepEqual
    \/ LoopExit
    \/ ReturnOK
    \/ ReturnError
    \/ Remember
    \/ CallerGoesOn

SpecSeq == Init /\ [][NextSeq]_vars

\* The call that has returned has the arguments of the call noted earlier.
SameCall ==
    /\ pc = "done"
    /\ remembered # <<>>
    /\ remembered[1].str = data_str
    /\ remembered[1].pos_asked = (err_pos # NULL)
    /\ remembered[1].len_asked = (err_len # NULL)

\* C12 (determinism): a call with the input and the requested outputs of an
\* earlier call returns the same code and stores the same values, whatever
\* calls were made in between and whatever they left in the stack.
C12_Determinism ==
    SameCall =>
        /\ remembered[1].ret = ret
        /\ remembered[1].pos = PosOut
        /\ remembered[1].len = LenOut

\* "999" was rejected again with (0, 3) two calls after it was first rejected.
C12_Witness ==
    /\ SameCall
    /\ remembered[1].later = 2
    /\ data_str = Lit(9,9,9)
    /\ ret = GS1_LINTER_NOT_ISO3166
    /\ PosOut = 0
    /\ LenOut = 3

----------------------------------------------------------------------------
\* The call is running: it has been entered and has not returned.
InCall == pc \in {"loop", "after"}

\* C13 (no side effects): no step of a running call changes the table or the
\* input string; a step stores only through err_pos and err_len, and only
\* through the one that is not NULL; and once the caller has taken the result
\* nothing of the call refers to the input.
C13_NoSideEffects ==
    [][ /\ InCall =>
             /\ Table' = Table
             /\ ref_set' = ref_set
             /\ data' = data
             /\ data_str' = data_str
             /\ writes' \subseteq ({err_pos, err_len} \ {NULL})
             /\ star_err_pos' # star_err_pos => err_pos # NULL
             /\ star_err_len' # star_err_len => err_len # NULL
        /\ pc' = "idle" => (data' = NULL /\ data_str' = <<>>)
      ]_vars

\* A call given err_len alone has failed and stored the length, nothing else.
C13_Witness ==
    /\ Returned
    /\ ret = GS1_LINTER_NOT_ISO3166
    /\ err_pos = NULL
    /\ writes = {"&err_len"}
    /\ star_err_pos = 77
    /\ star_err_len = Len(data_str)
    /\ Len(data_str) = 2

----------------------------------------------------------------------------
\* The build with GS1_LINTER_CUSTOM_ISO3166_LOOKUP defined: the lookup is the
\* user's macro; the table and the binary search are not compiled.

\* What the user's lookup may leave in valid: 0, 1 or another int.
CustomVerdicts == {0, 1, 2, -1}

\* Mutant of CallCustom: the built-in search run although a custom lookup is
\* defined.
CallCustom_builtin ==
    /\ pc = "idle"
    /\ \E str \in Strings, p \in {NULL, "&err_pos"}, l \in {NULL, "&err_len"},
          pv \in PriorVals, lv \in PriorVals :
          /\ data' = "&data"
          /\ data_str' = str
          /\ err_pos' = p
          /\ err_len' = l
          /\ star_err_pos' = pv
          /\ star_err_len' = lv
    /\ valid' = 0
    /\ ret' = "none"
    /\ writes' = {}
    /\ probes' = 0
    /\ m' = 0
    /\ cmp' = 0
    /\ s' = 0
    /\ e' = iso3166_count
    /\ pc' = "loop"
    /\ fn' = "gs1_lint_iso3166"
    /\ lookup' = "custom"
    /\ ndebug' = FALSE
    /\ UNCHANGED <<ref_set, remembered, other>>

\* Mutant of CustomEntry: int valid; without the initialiser, its value
\* indeterminate.
CustomEntry_uninit(str, p, l, pv, lv) ==
    /\ pc = "idle"
    /\ data' = "&data"
    /\ data_str' = str
    /\ err_pos' = p
    /\ err_len' = l
    /\ star_err_pos' = pv
    /\ star_err_len' = lv
    /\ valid' \in {0, 1}
    /\ ret' = "none"
    /\ writes' = {}
    /\ probes' = 0
    /\ m' = 0
    /\ cmp' = 0
    /\ s' = 0
    /\ e' = 0
    /\ pc' = "custom"
    /\ fn' = "gs1_lint_iso3166"
    /\ lookup' = "custom"
    /\ ndebug' = FALSE
    /\ UNCHANGED <<ref_set, remembered, other>>

\* The entry of gs1_lint_iso3166(data, err_pos, err_len) in that build:
\* int valid = 0, assert(data), and the user's macro comes next.
CustomEntry(str, p, l, pv, lv) ==
    /\ pc = "idle"
    /\ data' = "&data"
    /\ data_str' = str
    /\ err_pos' = p
    /\ err_len' = l
    /\ star_err_pos' = pv
    /\ star_err_len' = lv
    /\ valid' = 0
    /\ ret' = "none"
    /\ writes' = {}
    /\ probes' = 0
    /\ m' = 0
    /\ cmp' = 0
    /\ s' = 0
    /\ e' = 0
    /\ pc' = "custom"
    /\ fn' = "gs1_lint_iso3166"
    /\ lookup' = "custom"
    /\ ndebug' = FALSE
    /\ UNCHANGED <<ref_set, remembered, other>>

\* A call in that build with a string as data.
CallCustom ==
    /\ pc = "idle"
    /\ \E str \in Strings, p \in {NULL, "&err_pos"}, l \in {NULL, "&err_len"},
          pv \in PriorVals, lv \in PriorVals :
              CustomEntry(str, p, l, pv, lv)

\* GS1_LINTER_CUSTOM_ISO3166_LOOKUP(data): whatever the user's lookup does, it
\* assigns its verdict to valid.
CustomLookup ==
    /\ pc = "custom"
    /\ lookup = "custom"
    /\ \E v \in CustomVerdicts : valid' = v
    /\ pc' = "after"
    /\ UNCHANGED <<data, data_str, err_pos, err_len, star_err_pos,
                   star_err_len, s, e, m, cmp, ret, writes, probes>>
    /\ UNCHANGED <<fn, lookup, ref_set, remembered, other, ndebug>>

NextCustom ==
    \/ CallCustom
    \/ CustomLookup
    \/ ReturnOK
    \/ ReturnError
    \/ CallerContinues

SpecCustom == Init /\ [][NextCustom]_vars

\* C14 (custom lookup delegation): in the build with a custom lookup the call
\* takes the same three arguments, makes no probe of the table and runs no
\* step of the binary search, returns GS1_LINTER_OK exactly when the custom
\* lookup left valid non-zero, and otherwise stores the span (0, length of the
\* input) and returns GS1_LINTER_NOT_ISO3166.
C14_CustomDelegation ==
    lookup = "custom" =>
        /\ probes = 0
        /\ s = 0 /\ e = 0 /\ m = 0 /\ cmp = 0
        /\ pc \in {"custom", "after", "done"}
        /\ pc = "done" =>
              /\ (ret = GS1_LINTER_OK) <=> (valid # 0)
              /\ ret = GS1_LINTER_OK => writes = {}
              /\ ret # GS1_LINTER_OK =>
                    /\ ret = GS1_LINTER_NOT_ISO3166
                    /\ writes = {err_pos, err_len} \ {NULL}
                    /\ err_pos # NULL => star_err_pos = 0
                    /\ err_len # NULL => star_err_len = Len(data_str)

\* "000", no entry of the table, was accepted because the custom lookup left 2
\* in valid.
C14_Witness ==
    /\ pc = "done"
    /\ lookup = "custom"
    /\ data_str = Lit(0,0,0)
    /\ ~InTable(data_str)
    /\ valid = 2
    /\ probes = 0
    /\ ret = GS1_LINTER_OK

----------------------------------------------------------------------------
\* Other lookups in place of the binary search, deciding membership in the
\* same table: a scan of the table from its first entry, and a bitset with one
\* bit per number 0 .. 999.

\* The scan: 1 if strcmp finds some entry equal to str, 0 at the end of tab.
LinearLookup(tab, str) ==
    IF \E i \in 1..Len(tab) : strcmp(tab[i], str) = 0 THEN 1 ELSE 0

\* The number that three digit characters spell.
Num(str) == (str[1] - 48) * 100 + (str[2] - 48) * 10 + (str[3] - 48)

\* The bits that are set in the bitset made from tab.
Bits(tab) == { Num(tab[i]) : i \in 1..Len(tab) }

\* Mutant of BitsetLookup: the number taken from the first three bytes without
\* a look at the length of the input.
BitsetLookup_nolength(tab, str) ==
    IF /\ strlen(str) >= 3
       /\ \A i \in 1..3 : str[i] \in Digits
       /\ Num(str) \in Bits(tab)
    THEN 1 ELSE 0

\* The bitset lookup: an input of three digits is looked up by its number,
\* any other input is not valid.
BitsetLookup(tab, str) ==
    IF /\ strlen(str) = 3
       /\ \A i \in 1..3 : str[i] \in Digits
       /\ Num(str) \in Bits(tab)
    THEN 1 ELSE 0

AltLookups == {"default", "linear", "bitset"}

\* Entries, neighbours of entries, and inputs that are no three digits.
AltInputs ==
    { <<>>, <<48, 48>>, Lit(0,0,4), Lit(0,0,5), Lit(8,9,4), Lit(8,9,5),
      <<48, 48, 56, 48>>, <<48, 48, 52, 65>>, <<65, 65, 65>>, <<48, 47, 52>> }

\* A call of the function built with lookup k.
CallAlt ==
    /\ pc = "idle"
    /\ \E k \in AltLookups, str \in AltInputs,
          p \in {NULL, "&err_pos"}, l \in {NULL, "&err_len"} :
          /\ data' = "&data"
          /\ data_str' = str
          /\ err_pos' = p
          /\ err_len' = l
          /\ lookup' = k
          /\ pc' = IF k = "default" THEN "loop" ELSE "custom"
          /\ e' = IF k = "default" THEN iso3166_count ELSE 0
    /\ star_err_pos' = 77
    /\ star_err_len' = 77
    /\ valid' = 0
    /\ ret' = "none"
    /\ writes' = {}
    /\ probes' = 0
    /\ m' = 0
    /\ cmp' = 0
    /\ s' = 0
    /\ fn' = "gs1_lint_iso3166"
    /\ ndebug' = FALSE
    /\ UNCHANGED <<ref_set, remembered, other>>

\* The lookup that replaces the binary search assigns its verdict to valid.
AltLookup ==
    /\ pc = "custom"
    /\ lookup \in {"linear", "bitset"}
    /\ valid' = IF lookup = "linear" THEN LinearLookup(Table, data_str)
                                     ELSE BitsetLookup(Table, data_str)
    /\ pc' = "after"
    /\ UNCHANGED <<data, data_str, err_pos, err_len, star_err_pos,
                   star_err_len, s, e, m, cmp, ret, writes, probes>>
    /\ UNCHANGED <<fn, lookup, ref_set, remembered, other, ndebug>>

NextAlt ==
    \/ CallAlt
    \/ AltLookup
    \/ StepLess
    \/ StepGreater
    \/ StepEqual
    \/ LoopExit
    \/ ReturnOK
    \/ ReturnError
    \/ Remember
    \/ CallerContinues

SpecAlt == Init /\ [][NextAlt]_vars

\* C15 (order independence of the lookup strategy): a call of the function
\* built with one lookup (binary search, linear scan, bitset) returns the same
\* code and stores the same *err_pos and *err_len as the call with the same
\* arguments of the function built with another of them.
C15_LookupIndependence ==
    (SameCall /\ remembered[1].lookup # lookup) =>
        /\ ret = remembered[1].ret
        /\ PosOut = remembered[1].pos
        /\ LenOut = remembered[1].len

\* "0080" was rejected with (0, 4) by the binary search and then by the bitset.
C15_Witness ==
    /\ SameCall
    /\ remembered[1].lookup = "default"
    /\ lookup = "bitset"
    /\ data_str = <<48, 48, 56, 48>>
    /\ remembered[1].ret = GS1_LINTER_NOT_ISO3166
    /\ ret = GS1_LINTER_NOT_ISO3166
    /\ PosOut = 0
    /\ LenOut = 4

----------------------------------------------------------------------------
\* Threads calling the function.  One thread runs at a time; the frames of
\* the others (arguments, the two output objects, locals and position of
\* each) are kept in other.  The table is the only object the threads share.

\* Number of threads.
MaxThreads == 2

\* The frame of the running thread.
Frame ==
    [pc |-> pc, data |-> data, data_str |-> data_str, err_pos |-> err_pos,
     err_len |-> err_len, star_err_pos |-> star_err_pos,
     star_err_len |-> star_err_len, valid |-> valid, s |-> s, e |-> e, m |-> m,
     cmp |-> cmp, ret |-> ret, writes |-> writes, probes |-> probes, fn |-> fn,
     lookup |-> lookup, ndebug |-> ndebug]

\* The frame of a thread that is not in a call.
IdleFrame ==
    [pc |-> "idle", data |-> NULL, data_str |-> <<>>, err_pos |-> NULL,
     err_len |-> NULL, star_err_pos |-> 0, star_err_len |-> 0, valid |-> 0,
     s |-> 0, e |-> 0, m |-> 0, cmp |-> 0, ret |-> "none", writes |-> {},
     probes |-> 0, fn |-> "none", lookup |-> "none", ndebug |-> FALSE]

\* The frame of the i-th of the threads that are not running.
Saved(i) == IF i <= Len(other) THEN other[i] ELSE IdleFrame

\* The saved frames with frame f in place of the i-th.
Swapped(i, f) ==
    [j \in 1..(IF i > Len(other) THEN i ELSE Len(other)) |->
        IF j = i THEN f ELSE Saved(j)]

\* Mutant of ContextSwitch: valid declared static, one object for all threads.
ContextSwitch_sharedvalid ==
    \E i \in 1..(MaxThreads - 1) :
        /\ other' = Swapped(i, [Frame EXCEPT !.valid = 0])
        /\ pc' = Saved(i).pc
        /\ data' = Saved(i).data
        /\ data_str' = Saved(i).data_str
        /\ err_pos' = Saved(i).err_pos
        /\ err_len' = Saved(i).err_len
        /\ star_err_pos' = Saved(i).star_err_pos
        /\ star_err_len' = Saved(i).star_err_len
        /\ valid' = valid
        /\ s' = Saved(i).s
        /\ e' = Saved(i).e
        /\ m' = Saved(i).m
        /\ cmp' = Saved(i).cmp
        /\ ret' = Saved(i).ret
        /\ writes' = Saved(i).writes
        /\ probes' = Saved(i).probes
        /\ fn' = Saved(i).fn
        /\ lookup' = Saved(i).lookup
        /\ ndebug' = Saved(i).ndebug
        /\ UNCHANGED <<ref_set, remembered>>

\* The scheduler stops the running thread between two of its steps and runs
\* another one: each thread goes on with its own arguments and locals.
ContextSwitch ==
    \E i \in 1..(MaxThreads - 1) :
        /\ other' = Swapped(i, Frame)
        /\ pc' = Saved(i).pc
        /\ data' = Saved(i).data
        /\ data_str' = Saved(i).data_str
        /\ err_pos' = Saved(i).err_pos
        /\ err_len' = Saved(i).err_len
        /\ star_err_pos' = Saved(i).star_err_pos
        /\ star_err_len' = Saved(i).star_err_len
        /\ valid' = Saved(i).valid
        /\ s' = Saved(i).s
        /\ e' = Saved(i).e
        /\ m' = Saved(i).m
        /\ cmp' = Saved(i).cmp
        /\ ret' = Saved(i).ret
        /\ writes' = Saved(i).writes
        /\ probes' = Saved(i).probes
        /\ fn' = Saved(i).fn
        /\ lookup' = Saved(i).lookup
        /\ ndebug' = Saved(i).ndebug
        /\ UNCHANGED <<ref_set, remembered>>

\* The first entry, its successor, and an entry with a byte appended.
ThreadInputs == { Lit(0,0,4), Lit(0,0,5), <<48, 48, 56, 48>> }

\* The running thread calls the function with output objects of its own.
CallThread ==
    /\ pc = "idle"
    /\ \E str \in ThreadInputs, p \in {NULL, "&err_pos"} :
          Call("&data", str, p, "&err_len", 77, 77)

NextThreads ==
    \/ CallThread
    \/ ContextSwitch
    \/ StepLess
    \/ StepGreater
    \/ StepEqual
    \/ LoopExit
    \/ ReturnOK
    \/ ReturnError
    \/ CallerContinues

SpecThreads == Init /\ [][NextThreads]_vars

\* What a call with input str returns when it runs alone (C1, C2).
Alone(str) == IF InTable(str) THEN GS1_LINTER_OK ELSE GS1_LINTER_NOT_ISO3166

\* The call of frame f, if it has returned, has the result of the call alone.
AsAlone(f) ==
    f.pc = "done" =>
        /\ f.ret = Alone(f.data_str)
        /\ f.star_err_pos =
              (IF f.ret # GS1_LINTER_OK /\ f.err_pos # NULL THEN 0 ELSE 77)
        /\ f.star_err_len =
              (IF f.ret # GS1_LINTER_OK /\ f.err_len # NULL THEN Len(f.data_str) ELSE 77)

\* C16 (thread safety without locking): with MaxThreads threads in the
\* function at once, each with output objects of its own, and under every
\* interleaving of their steps, each call returns the code and stores the span
\* that it does when it runs alone.
C16_ThreadSafety ==
    /\ AsAlone(Frame)
    /\ \A i \in 1..Len(other) : AsAlone(other[i])

\* One thread has had "004" accepted while the other, three probes into its
\* search for "0080", is stopped with valid still 0.
C16_Witness ==
    /\ pc = "done"
    /\ data_str = Lit(0,0,4)
    /\ ret = GS1_LINTER_OK
    /\ valid = 1
    /\ other # <<>>
    /\ other[1].pc = "loop"
    /\ other[1].data_str = <<48, 48, 56, 48>>
    /\ other[1].probes = 3
    /\ other[1].valid = 0

----------------------------------------------------------------------------
\* The two builds of the function: with assertions, and with NDEBUG defined,
\* where assert(data) expands to nothing and a null data reaches
\* strcmp(iso3166[m], data) and strlen(data), whose behaviour is undefined.

\* Inputs of the calls with a string.
BuildInputs == { <<>>, Lit(0,0,4), Lit(0,0,5) }

\* What the reads through a null data yield when they do not trap.
WildBytes == { <<>>, Lit(0,0,4), <<65>> }

\* A call with a string of the function built with assertions.
CallDebug ==
    /\ pc = "idle"
    /\ \E str \in BuildInputs, p \in {NULL, "&err_pos"}, l \in {NULL, "&err_len"} :
          Call("&data", str, p, l, 77, 77)

\* A call of the function built with NDEBUG: int valid = 0, no assertion,
\* size_t s = 0, size_t e = ...; data is a string or NULL.
CallRelease ==
    /\ pc = "idle"
    /\ \E d \in {NULL, "&data"}, p \in {NULL, "&err_pos"}, l \in {NULL, "&err_len"} :
          /\ data' = d
          /\ err_pos' = p
          /\ err_len' = l
          /\ \E str \in (IF d = NULL THEN WildBytes ELSE BuildInputs) :
                data_str' = str
    /\ star_err_pos' = 77
    /\ star_err_len' = 77
    /\ valid' = 0
    /\ ret' = "none"
    /\ writes' = {}
    /\ probes' = 0
    /\ m' = 0
    /\ cmp' = 0
    /\ pc' = "loop"
    /\ s' = 0
    /\ e' = iso3166_count
    /\ fn' = "gs1_lint_iso3166"
    /\ lookup' = "default"
    /\ ndebug' = TRUE
    /\ UNCHANGED <<ref_set, remembered, other>>

\* strcmp or strlen reads through the null data and the read traps.
Trap ==
    /\ data = NULL
    /\ \/ pc = "loop" /\ s < e
       \/ pc = "after" /\ valid = 0 /\ err_len # NULL
    /\ pc' = "trap"
    /\ UNCHANGED <<data, data_str, err_pos, err_len, star_err_pos,
                   star_err_len, valid, s, e, m, cmp, ret, writes, probes>>
    /\ UNCHANGED <<fn, lookup, ref_set, remembered, other, ndebug>>

NextBuilds ==
    \/ CallDebug
    \/ CallNull
    \/ CallRelease
    \/ Trap
    \/ StepLess
    \/ StepGreater
    \/ StepEqual
    \/ LoopExit
    \/ ReturnOK
    \/ ReturnError
    \/ CallerContinues

SpecBuilds == Init /\ [][NextBuilds]_vars

\* The call in progress or ended was made with a null data.
NullCall == data = NULL /\ pc # "idle"

\* C17 as stated (null input stopped by the assertion): a call with a null
\* data is stopped before any lookup step and before any store through
\* err_pos or err_len, and returns neither GS1_LINTER_OK nor
\* GS1_LINTER_NOT_ISO3166.
C17_NullStopped ==
    NullCall =>
        /\ probes = 0
        /\ writes = {}
        /\ ret \notin {GS1_LINTER_OK, GS1_LINTER_NOT_ISO3166}

\* C17 (null input, build with assertions): in a build without NDEBUG a call
\* with a null data is stopped by assert(data) before any lookup step and
\* before any store through err_pos or err_len, and returns no code.
C17_NullAsserted ==
    (NullCall /\ ~ndebug) =>
        /\ pc = "abort"
        /\ probes = 0
        /\ valid = 0
        /\ writes = {}
        /\ star_err_pos \in PriorVals
        /\ star_err_len \in PriorVals
        /\ ret = "none"

\* The assertion has stopped a call given a null data and both output
\* pointers; the two output objects hold what they held.
C17_Witness ==
    /\ pc = "abort"
    /\ data = NULL
    /\ ~ndebug
    /\ err_pos # NULL
    /\ err_len # NULL
    /\ star_err_pos = 77
    /\ star_err_len = 77
    /\ writes = {}
    /\ ret = "none"

----------------------------------------------------------------------------
\* The call as a running thread: once entered, the function takes its next
\* step as long as it has one.

\* Every three-digit string, the empty string, and two other inputs.
LiveInputs == ThreeDigit \cup { <<>>, <<48, 48, 56, 48>>, <<65, 65, 65>> }

CallLive ==
    /\ pc = "idle"
    /\ \E str \in LiveInputs, p \in {NULL, "&err_pos"} :
          Call("&data", str, p, "&err_len", 77, 77)

\* The steps of the function between its entry and its return.
Run ==
    \/ StepLess
    \/ StepGreater
    \/ StepEqual
    \/ LoopExit
    \/ ReturnOK
    \/ ReturnError

NextLive ==
    \/ CallLive
    \/ Run
    \/ CallerContinues

SpecLive == Init /\ [][NextLive]_vars /\ WF_vars(Run)

\* C18 (termination): a call with a string that has entered the loop
\* eventually returns; the bounds never cross; the loop is left exactly when
\* the probed entry equals the input (valid = 1) or the bounds have met (s = e,
\* valid still 0); and e - s is strictly smaller after every iteration that
\* finds no match.
C18_Termination ==
    /\ (pc = "loop") ~> (pc = "done")
    /\ [](pc = "loop" => (s <= e /\ valid = 0))
    /\ [][ pc = "loop" =>
             /\ pc' \in {"loop", "after"}
             /\ pc' = "after" =>
                   \/ /\ s < e
                      /\ valid' = 1
                      /\ Table[m' + 1] = data_str
                   \/ /\ s = e
                      /\ valid' = 0
                      /\ probes' = probes
             /\ pc' = "loop" =>
                   /\ s < e
                   /\ probes' = probes + 1
                   /\ Table[m' + 1] # data_str
                   /\ s' <= e'
                   /\ e' - s' < e - s
         ]_vars

\* The search for "999" has ended with the bounds met at the end of the table
\* and the call has returned.
C18_Witness ==
    /\ Returned
    /\ data_str = Lit(9,9,9)
    /\ valid = 0
    /\ s = e
    /\ e = Len(iso3166)
    /\ probes = 7
    /\ ret = GS1_LINTER_NOT_ISO3166

----------------------------------------------------------------------------
RECURSIVE FloorLog2(_)
\* floor(log2 n) of n >= 1.
FloorLog2(n) == IF n <= 1 THEN 0 ELSE 1 + FloorLog2(n \div 2)

\* floor(log2 n) + 1 for the table iso3166.
iso3166_max_probes == FloorLog2(Len(iso3166)) + 1

\* C19 (logarithmic number of comparisons): every iteration that finds no
\* match leaves an interval of at most half the size (rounded down), and a
\* call, whether it finds its input or not, makes at most floor(log2 n) + 1
\* calls of strcmp, which is 8 for the 249 entries of iso3166.
C19_LogComparisons ==
    /\ [](/\ Len(iso3166) = 249
          /\ iso3166_max_probes = 8
          /\ probes <= iso3166_max_probes)
    /\ [][ (pc = "loop" /\ pc' = "loop") =>
               /\ probes' = probes + 1
               /\ e' - s' <= (e - s) \div 2
         ]_vars

\* The search for the empty string has taken the 8 comparisons.
C19_Witness ==
    /\ Returned
    /\ data_str = <<>>
    /\ probes = 8
    /\ s = 0
    /\ e = 0
    /\ ret = GS1_LINTER_NOT_ISO3166

----------------------------------------------------------------------------
\* gs1_lint_iso4217: the same function over the table iso4217, returning
\* GS1_LINTER_NOT_ISO4217 for an input that is not in it.

\* sizeof(iso4217) / sizeof(iso4217[0])
iso4217_count == Len(iso4217)

\* Mutant of Call4217: the lookup done by the bitset, one bit tested and no
\* search of the table.
Call4217_bitset ==
    /\ pc = "idle"
    /\ \E str \in LiveInputs, p \in {NULL, "&err_pos"}, l \in {NULL, "&err_len"} :
          /\ data' = "&data"
          /\ data_str' = str
          /\ err_pos' = p
          /\ err_len' = l
          /\ valid' = BitsetLookup(iso4217, str)
    /\ star_err_pos' = 77
    /\ star_err_len' = 77
    /\ ret' = "none"
    /\ writes' = {}
    /\ probes' = 0
    /\ m' = 0
    /\ cmp' = 0
    /\ pc' = "after"
    /\ s' = 0
    /\ e' = 0
    /\ fn' = "gs1_lint_iso4217"
    /\ lookup' = "default"
    /\ ndebug' = FALSE
    /\ UNCHANGED <<ref_set, remembered, other>>

\* A call of gs1_lint_iso4217(data, err_pos, err_len) with a string.
Call4217 ==
    /\ pc = "idle"
    /\ \E str \in LiveInputs, p \in {NULL, "&err_pos"}, l \in {NULL, "&err_len"} :
          /\ data' = "&data"
          /\ data_str' = str
          /\ err_pos' = p
          /\ err_len' = l
    /\ star_err_pos' = 77
    /\ star_err_len' = 77
    /\ valid' = 0
    /\ ret' = "none"
    /\ writes' = {}
    /\ probes' = 0
    /\ m' = 0
    /\ cmp' = 0
    /\ pc' = "loop"
    /\ s' = 0
    /\ e' = iso4217_count
    /\ fn' = "gs1_lint_iso4217"
    /\ lookup' = "default"
    /\ ndebug' = FALSE
    /\ UNCHANGED <<ref_set, remembered, other>>

Next4217 ==
    \/ Call4217
    \/ StepLess
    \/ StepGreater
    \/ StepEqual
    \/ LoopExit
    \/ ReturnOK
    \/ ReturnError
    \/ CallerContinues

Spec4217 == Init /\ [][Next4217]_vars

\* The codes the change log adds (924 ZWG, 926 VED) and those it removes
\* (191 HRK, 694 SLL, 932 ZWL).
ChangeLogAdded == { Lit(9,2,4), Lit(9,2,6) }
ChangeLogRemoved == { Lit(1,9,1), Lit(6,9,4), Lit(9,3,2) }

\* C20 (the code list matches the change log): gs1_lint_iso4217 accepts the
\* currency codes 924 and 926 and rejects the removed codes 191, 694 and 932.
C20_MatchesChangeLog ==
    (pc = "done" /\ fn = "gs1_lint_iso4217") =>
        /\ data_str \in ChangeLogAdded => ret = GS1_LINTER_OK
        /\ data_str \in ChangeLogRemoved => ret = GS1_LINTER_NOT_ISO4217

\* "924" was searched for in iso4217, not found, and rejected with (0, 3).
C20_Witness ==
    /\ pc = "done"
    /\ fn = "gs1_lint_iso4217"
    /\ data_str = Lit(9,2,4)
    /\ valid = 0
    /\ s = e
    /\ ret = GS1_LINTER_NOT_ISO4217
    /\ writes = {"&err_pos", "&err_len"}
    /\ star_err_pos = 0
    /\ star_err_len = 3

----------------------------------------------------------------------------
\* The two linters, gs1_lint_iso3166 and gs1_lint_iso4217, each over its table.

NextBoth ==
    \/ CallLive
    \/ Call4217
    \/ StepLess
    \/ StepGreater
    \/ StepEqual
    \/ LoopExit
    \/ ReturnOK
    \/ ReturnError
    \/ CallerContinues

SpecBoth == Init /\ [][NextBoth]_vars

\* a is below b in the order of unsigned bytes: at the first index where they
\* differ a has ended or has the smaller byte.
BytesBelow(a, b) ==
    \E k \in 1..Len(b) :
        /\ k <= Len(a) + 1
        /\ \A j \in 1..(k - 1) : a[j] = b[j]
        /\ k = Len(a) + 1 \/ a[k] < b[k]

\* C21 (search step rule): in each iteration the probe index is
\* m = s + (e - s) / 2 and the byte-wise three-way comparison of table[m] with
\* the input decides the step: below, s becomes m + 1 and e stays; above, e
\* becomes m and s stays; equal, the search stops with valid = 1.  So s never
\* decreases and e never increases during a call.
C21_StepRule ==
    [][ (pc = "loop" /\ s < e) =>
            LET mid == s + (e - s) \div 2
                entry == Table[mid + 1]
            IN  /\ m' = mid
                /\ BytesBelow(entry, data_str) =>
                      (cmp' < 0 /\ s' = mid + 1 /\ e' = e /\ valid' = 0 /\ pc' = "loop")
                /\ BytesBelow(data_str, entry) =>
                      (cmp' > 0 /\ e' = mid /\ s' = s /\ valid' = 0 /\ pc' = "loop")
                /\ entry = data_str =>
                      (cmp' = 0 /\ valid' = 1 /\ s' = s /\ e' = e /\ pc' = "after")
                /\ s' >= s
                /\ e' <= e
      ]_vars

\* The first iteration over iso4217 found its probe below the input and moved
\* s past it.
C21_Witness ==
    /\ pc = "loop"
    /\ fn = "gs1_lint_iso4217"
    /\ probes = 1
    /\ m = 90
    /\ BytesBelow(Table[m + 1], data_str)
    /\ cmp < 0
    /\ s = 91
    /\ e = 180

----------------------------------------------------------------------------
\* C22 (loop invariant of the binary search): in every state of the loop
\* 0 <= s <= e <= n, every entry at an index below s is strictly below the
\* input and every entry at an index at or above e is strictly above it; so an
\* input that is in the table has its index in [s, e), and the loop is left
\* without a match only with s = e, never with s > e.
C22_LoopInvariant ==
    (pc \in {"loop", "after", "done"} /\ lookup = "default") =>
        /\ 0 <= s
        /\ s <= e
        /\ e <= Len(Table)
        /\ valid = 0 =>
              /\ \A i \in 0..(s - 1) : BytesBelow(Table[i + 1], data_str)
              /\ \A i \in e..(Len(Table) - 1) : BytesBelow(data_str, Table[i + 1])
              /\ (\E i \in 1..Len(Table) : Table[i] = data_str) =>
                    (\E i \in s..(e - 1) : Table[i + 1] = data_str)
              /\ pc \in {"after", "done"} => s = e

\* The search for an entry of iso3166, two probes on, has moved both bounds
\* and still has the entry between them.
C22_Witness ==
    /\ pc = "loop"
    /\ fn = "gs1_lint_iso3166"
    /\ InTable(data_str)
    /\ valid = 0
    /\ probes = 2
    /\ m = 62
    /\ 0 < s
    /\ s < e
    /\ e < Len(iso3166)
    /\ \E i \in s..(e - 1) : iso3166[i + 1] = data_str

----------------------------------------------------------------------------
\* C23 (index safety): every access iso3166[m] of the search has
\* s <= m < e <= n, so 0 <= m <= n - 1 in every iteration and for every input,
\* those below the first entry and above the last one included: the table is
\* never read out of bounds.
C23_IndexSafety ==
    /\ pc = "loop" => (0 <= s /\ s <= e /\ e <= Len(iso3166))
    /\ (pc = "loop" /\ s < e) =>
          LET mid == s + (e - s) \div 2
          IN  /\ s <= mid
              /\ mid < e
              /\ 0 <= mid
              /\ mid <= Len(iso3166) - 1
              /\ mid + 1 \in DOMAIN iso3166
    /\ probes > 0 => (0 <= m /\ m <= Len(iso3166) - 1)

\* The search for "AAA", above every entry, has made its last probe at the
\* last index, 248, and ended.
C23_Witness ==
    /\ Returned
    /\ data_str = <<65, 65, 65>>
    /\ BytesBelow(iso3166[Len(iso3166)], data_str)
    /\ m = Len(iso3166) - 1
    /\ s = Len(iso3166)
    /\ e = Len(iso3166)

----------------------------------------------------------------------------
\* C24 (the unsigned index arithmetic never wraps): e - s is computed only
\* with s < e, so it is at least 1; m = s + (e - s) / 2 is at most e - 1 and
\* m + 1 at most e; each of these equals its value as a size_t, and s, e and m
\* stay within 0 .. n.
C24_NoWrap ==
    /\ Len(iso3166) <= SIZE_MAX
    /\ pc \in {"loop", "after", "done"} =>
          /\ s \in 0..Len(iso3166)
          /\ e \in 0..Len(iso3166)
          /\ m \in 0..Len(iso3166)
    /\ (pc = "loop" /\ s < e) =>
          LET mid == s + (e - s) \div 2
          IN  /\ e - s >= 1
              /\ AsSizeT(e - s) = e - s
              /\ AsSizeT(mid) = mid
              /\ mid <= e - 1
              /\ AsSizeT(mid + 1) = mid + 1
              /\ mid + 1 <= e

\* The update s = m + 1 has brought s up to e at the end of the table: s and
\* e are both n, m is n - 1.
C24_Witness ==
    /\ pc = "loop"
    /\ data # NULL
    /\ m = Len(iso3166) - 1
    /\ s = m + 1
    /\ s = e
    /\ e = Len(iso3166)
    /\ cmp < 0

----------------------------------------------------------------------------
\* C25 (on success nothing is reported): no step of a call that does not end
\* it with GS1_LINTER_NOT_ISO3166 stores anything: the only stores are those
\* of the failure path, made after the search has finished with valid 0.  So
\* when the call returns GS1_LINTER_OK, *err_pos and *err_len hold what they
\* held before the call.
C25_SuccessWritesNothing ==
    /\ []((Returned /\ ret = GS1_LINTER_OK) =>
             /\ writes = {}
             /\ star_err_pos \in PriorVals
             /\ star_err_len \in PriorVals)
    /\ [][ (pc \in {"loop", "after"} /\ ret' # GS1_LINTER_NOT_ISO3166) =>
               /\ star_err_pos' = star_err_pos
               /\ star_err_len' = star_err_len
               /\ writes' = writes
         ]_vars
    /\ [][ (pc \in {"loop", "after"} /\ ret' = GS1_LINTER_NOT_ISO3166) =>
               /\ pc = "after"
               /\ valid = 0
               /\ pc' = "done"
         ]_vars

\* "004" was accepted in a call given both output pointers, and the two
\* output objects still hold the 77 they held before the call.
C25_Witness ==
    /\ Returned
    /\ data_str = Lit(0,0,4)
    /\ ret = GS1_LINTER_OK
    /\ err_pos # NULL
    /\ err_len # NULL
    /\ star_err_pos = 77
    /\ star_err_len = 77
    /\ writes = {}

----------------------------------------------------------------------------
\* Calls of both builds, the one with the binary search and the one with a
\* custom lookup, by a caller in whose stack the locals of a call that has
\* returned stay as they were.

\* A call of the build with a custom lookup.
CallHooked ==
    /\ pc = "idle"
    /\ \E str \in ThreadInputs, p \in {NULL, "&err_pos"} :
          CustomEntry(str, p, "&err_len", 77, 77)

\* A custom lookup that never assigns to valid.
CustomNoAssign ==
    /\ pc = "custom"
    /\ lookup = "custom"
    /\ pc' = "after"
    /\ UNCHANGED <<data, data_str, err_pos, err_len, star_err_pos,
                   star_err_len, valid, s, e, m, cmp, ret, writes, probes>>
    /\ UNCHANGED <<fn, lookup, ref_set, remembered, other, ndebug>>

NextFlag ==
    \/ CallLive
    \/ CallHooked
    \/ CustomLookup
    \/ CustomNoAssign
    \/ StepLess
    \/ StepGreater
    \/ StepEqual
    \/ LoopExit
    \/ ReturnOK
    \/ ReturnError
    \/ CallerGoesOn

SpecFlag == Init /\ [][NextFlag]_vars

\* C26 (the membership flag defaults to failure): valid is 0 at the start of
\* every call; the binary search changes it at most once, from 0 to 1 and only
\* when the probed entry equals the input, and nothing resets it; the call
\* returns GS1_LINTER_OK exactly when valid is not 0 after the lookup; so with
\* a custom lookup that does not assign valid every input gets
\* GS1_LINTER_NOT_ISO3166.
C26_ValidFlag ==
    /\ [][ (pc = "idle" /\ pc' # "idle") => valid' = 0 ]_vars
    /\ [][ (pc = "loop" /\ valid' # valid) =>
               /\ valid = 0
               /\ valid' = 1
               /\ Table[m' + 1] = data_str
               /\ pc' = "after"
         ]_vars
    /\ [][ pc = "after" => valid' = valid ]_vars
    /\ [][ (pc = "custom" /\ valid' = valid) => valid' = 0 ]_vars
    /\ [](pc = "done" =>
             /\ (ret = GS1_LINTER_OK) <=> (valid # 0)
             /\ valid = 0 => ret = GS1_LINTER_NOT_ISO3166)

\* A call with the entry "004" in the build with a custom lookup was rejected
\* with the span (0, 3), valid being 0 after the lookup.
C26_Witness ==
    /\ pc = "done"
    /\ lookup = "custom"
    /\ data_str = Lit(0,0,4)
    /\ InTable(data_str)
    /\ valid = 0
    /\ ret = GS1_LINTER_NOT_ISO3166
    /\ star_err_len = 3

----------------------------------------------------------------------------
----------------------------------------------------------------------------
============================================================================
